---------------------------- MODULE Spec2Model ----------------------------
(***************************************************************************)
(* A model of KnowledgeBaseMCP's document core: the extraction pipeline    *)
(* (src/src/extractors.py), the word-processor writer                      *)
(* (src/src/docx_writer.py) and the spreadsheet writer                     *)
(* (src/src/xlsx_writer.py).                                               *)
(*                                                                         *)
(* Texts are TLA+ strings handled character by character (Len, SubSeq and  *)
(* \o work on strings in TLC).  The file system is the only state that     *)
(* survives an operation: fs maps every existing path to its entry.        *)
(***************************************************************************)
EXTENDS Integers, Sequences, FiniteSets, TLC

VARIABLES
    fs,      \* the file system: path -> entry, for the paths that exist
    deps,    \* the optional libraries found at import (the *_AVAILABLE flags)
    call,    \* the public operation invoked last, with its arguments
    result,  \* what that operation returned: [value, failed, readers]
    pre,     \* the file system as it was when that operation started
    prev,    \* call, result and pre of the writer operation before that one
    nops,    \* the number of operations invoked so far
    tasks    \* the invocations under way at once: each one's position and locals

vars == <<fs, deps, call, result, pre, prev, nops, tasks>>

(***************************************************************************)
(* Python's str operations, as the code uses them.                         *)
(***************************************************************************)

\* s[i] (1-based)
CharAt(s, i) == SubSeq(s, i, i)

\* The printable ASCII characters in code-point order, from chr(32) on (the
\* grave accent, which no input of the model holds, is left out).
Ascii ==
    " !\"#$%&'()*+,-./0123456789:;<=>?@ABCDEFGHIJKLMNOPQRSTUVWXYZ[\\]^_abcdefghijklmnopqrstuvwxyz{|}~"

\* ord(c), up to a shift that keeps the order
Ord(c) == CHOOSE i \in 1..Len(Ascii) : CharAt(Ascii, i) = c

IsSpace(c) == c \in {" ", "\t", "\n", "\r", "\f"}

IsDigit(c) == c \in {"0", "1", "2", "3", "4", "5", "6", "7", "8", "9"}

IsUpper(c) == \E i \in Ord("A")..Ord("Z") : CharAt(Ascii, i) = c

\* str.lower(), one character
LowerChar(c) == IF IsUpper(c) THEN CharAt(Ascii, Ord(c) + (Ord("a") - Ord("A"))) ELSE c

RECURSIVE Lower(_)
\* str.lower()
Lower(s) == IF s = "" THEN "" ELSE LowerChar(CharAt(s, 1)) \o Lower(SubSeq(s, 2, Len(s)))

\* str.startswith(p)
StartsWith(s, p) == Len(s) >= Len(p) /\ SubSeq(s, 1, Len(p)) = p

\* str.endswith(p)
EndsWith(s, p) == Len(s) >= Len(p) /\ SubSeq(s, Len(s) - Len(p) + 1, Len(s)) = p

\* sub in s
Contains(s, sub) == \E i \in 1..(Len(s) - Len(sub) + 1) : SubSeq(s, i, i + Len(sub) - 1) = sub

RECURSIVE LStrip(_)
LStrip(s) == IF s # "" /\ IsSpace(CharAt(s, 1)) THEN LStrip(SubSeq(s, 2, Len(s))) ELSE s

RECURSIVE RStrip(_)
RStrip(s) == IF s # "" /\ IsSpace(CharAt(s, Len(s))) THEN RStrip(SubSeq(s, 1, Len(s) - 1)) ELSE s

\* str.strip()
Strip(s) == RStrip(LStrip(s))

RECURSIVE Remove(_, _)
\* str.replace(c, '') for a one-character c
Remove(s, c) ==
    IF s = "" THEN ""
    ELSE (IF CharAt(s, 1) = c THEN "" ELSE CharAt(s, 1)) \o Remove(SubSeq(s, 2, Len(s)), c)

\* str.find(sep): the first position of sep in s, 0 when there is none
Find(s, sep) ==
    IF Contains(s, sep)
    THEN CHOOSE i \in 1..(Len(s) - Len(sep) + 1) :
            /\ SubSeq(s, i, i + Len(sep) - 1) = sep
            /\ \A j \in 1..(i - 1) : SubSeq(s, j, j + Len(sep) - 1) # sep
    ELSE 0

RECURSIVE Split(_, _)
\* str.split(sep): the pieces between the occurrences of sep, at least one piece
Split(s, sep) ==
    LET i == Find(s, sep)
    IN  IF i = 0 THEN <<s>>
        ELSE <<SubSeq(s, 1, i - 1)>> \o Split(SubSeq(s, i + Len(sep), Len(s)), sep)

RECURSIVE Join(_, _)
\* sep.join(parts)
Join(parts, sep) ==
    IF Len(parts) = 0 THEN ""
    ELSE IF Len(parts) = 1 THEN parts[1]
    ELSE parts[1] \o sep \o Join(Tail(parts), sep)

\* a < b for Python strings of printable characters (code-point order)
RECURSIVE StrLess(_, _)
StrLess(a, b) ==
    IF b = "" THEN FALSE
    ELSE IF a = "" THEN TRUE
    ELSE IF CharAt(a, 1) = CharAt(b, 1) THEN StrLess(SubSeq(a, 2, Len(a)), SubSeq(b, 2, Len(b)))
    ELSE Ord(CharAt(a, 1)) < Ord(CharAt(b, 1))


(***************************************************************************)
(* Python values.                                                          *)
(***************************************************************************)

\* A Python value that may be a text, a number or None carries its type and
\* its str() rendering.
PyStr(s) == [t |-> "str", v |-> s]

PyInt(digits) == [t |-> "int", v |-> digits]

None == [t |-> "NoneType", v |-> "None"]

\* str(x)
Str(x) == PyStr(x.v)

\* bool(x), as in `if x:`
Truthy(x) == x.t # "NoneType" /\ x.v # "" /\ ~(x.t = "int" /\ x.v = "0")

\* dict.get(k, default)
Get(d, k, default) == IF k \in DOMAIN d THEN d[k] ELSE default

(***************************************************************************)
(* The word-processor writer (src/src/docx_writer.py).  A document is its  *)
(* sequence of body paragraphs; a paragraph has a style, an alignment, a   *)
(* paragraph format and its runs; paragraph.text is the runs' texts put    *)
(* together.  Lengths are in hundredths (1.15 is 115, 1.0 inch is 100).    *)
(***************************************************************************)

\* the style_config create_document builds when it is given none
DefaultStyleConfig ==
    [font_name |-> "Calibri", font_size |-> 11, line_spacing |-> 115,
     add_page_numbers |-> TRUE, margins |-> 100]

\* paragraph.add_run(text): the font is the style's until it is set
Run(text) == [text |-> text, bold |-> FALSE, font_name |-> "", font_size |-> 0]

\* doc.add_paragraph(text, style): a run is added only for a non-empty text
AddParagraph(text, style) ==
    [style |-> style, alignment |-> "", line_spacing |-> 0, space_after |-> 0,
     runs |-> IF text # "" THEN <<Run(text)>> ELSE <<>>]

\* doc.add_heading(text, level)
AddHeading(text, level) ==
    AddParagraph(text, CASE level = 1 -> "Heading 1" [] level = 2 -> "Heading 2" [] OTHER -> "Heading 3")

RECURSIVE RunsText(_)
RunsText(runs) == IF Len(runs) = 0 THEN "" ELSE runs[1].text \o RunsText(Tail(runs))

\* paragraph.text
ParagraphText(p) == RunsText(p.runs)

\* _style_paragraph: the paragraph format, and the font of the runs present now
StyleParagraph(p, style_config) ==
    [p EXCEPT !.line_spacing = Get(style_config, "line_spacing", 115),
              !.space_after = 6,
              !.runs = [i \in 1..Len(p.runs) |->
                           [p.runs[i] EXCEPT !.font_name = Get(style_config, "font_name", "Calibri"),
                                             !.font_size = Get(style_config, "font_size", 11)]]]

\* _style_heading
StyleHeading(p, style_config) ==
    [p EXCEPT !.runs = [i \in 1..Len(p.runs) |->
                           [p.runs[i] EXCEPT !.font_name = Get(style_config, "font_name", "Calibri"),
                                             !.bold = TRUE]]]

\* _add_title: a centred level-1 heading whose first run is 16pt bold
AddTitle(title, style_config) ==
    LET h == AddHeading(title, 1)
    IN  [h EXCEPT !.alignment = "center",
                  !.runs[1] = [h.runs[1] EXCEPT !.font_name = Get(style_config, "font_name", "Calibri"),
                                                !.font_size = 16,
                                                !.bold = TRUE]]

RECURSIVE FormattedRunsBoldToEnd(_, _)
\* a variant that takes every piece after the first for bold
FormattedRunsBoldToEnd(parts, i) ==
    IF i > Len(parts) THEN <<>>
    ELSE (IF parts[i] = "" THEN <<>>
          ELSE IF i = 1 THEN <<Run(parts[i])>>
          ELSE <<[Run(parts[i]) EXCEPT !.bold = TRUE]>>)
         \o FormattedRunsBoldToEnd(parts, i + 1)

RECURSIVE FormattedRuns(_, _)
\* the runs _add_formatted_text adds for parts[i..]: odd pieces of the split
\* are plain, even ones bold (i is 1-based here), empty pieces add no run
FormattedRuns(parts, i) ==
    IF i > Len(parts) THEN <<>>
    ELSE (IF parts[i] = "" THEN <<>>
          ELSE IF i % 2 = 1 THEN <<Run(parts[i])>>
          ELSE <<[Run(parts[i]) EXCEPT !.bold = TRUE]>>)
         \o FormattedRuns(parts, i + 1)

\* _add_formatted_text(paragraph, text): paragraph with the runs added
AddFormattedText(p, text) == [p EXCEPT !.runs = @ \o FormattedRuns(Split(text, "**"), 1)]

\* the rules of _add_content for one stripped, non-blank line, in the code's
\* order.  BulletChar stands for the bullet character U+2022, which a string
\* here cannot hold; no input holds a tilde of its own.
BulletChar == "~"

IsHeading2(line) == StartsWith(line, "===") /\ EndsWith(line, "===")

\* a variant that takes only the hashes for a level-3 heading, so that a line
\* of dashes falls through to the list-item rule
IsHeading3HashesOnly(line) == StartsWith(line, "##")

IsHeading3(line) == StartsWith(line, "--") \/ StartsWith(line, "##")

IsBullet(line) == StartsWith(line, BulletChar) \/ StartsWith(line, "-") \/ StartsWith(line, "*")

IsNumbered(line) == Len(line) > 2 /\ IsDigit(CharAt(line, 1)) /\ CharAt(line, 2) = "."

RECURSIVE AddContentFromKeepingOpen(_, _, _, _, _)
\* a variant in which a heading or list line whose text is empty is passed
\* over like no line at all: the open paragraph stays open
AddContentFromKeepingOpen(lines, i, paras, open, style_config) ==
    IF i > Len(lines) THEN paras
    ELSE
    LET line == Strip(lines[i])
        n == Len(paras)
    IN  IF line = "" THEN AddContentFromKeepingOpen(lines, i + 1, paras, FALSE, style_config)
        ELSE IF IsHeading2(line) THEN
            LET heading_text == Strip(Remove(line, "="))
            IN  AddContentFromKeepingOpen(lines, i + 1,
                    IF heading_text # ""
                    THEN Append(paras, StyleHeading(AddHeading(heading_text, 2), style_config))
                    ELSE paras,
                    open /\ heading_text = "", style_config)
        ELSE IF IsHeading3(line) THEN
            LET heading_text == Strip(Remove(Remove(line, "-"), "#"))
            IN  AddContentFromKeepingOpen(lines, i + 1,
                    IF heading_text # ""
                    THEN Append(paras, StyleHeading(AddHeading(heading_text, 3), style_config))
                    ELSE paras,
                    open /\ heading_text = "", style_config)
        ELSE IF IsBullet(line) THEN
            LET list_text == Strip(SubSeq(line, 2, Len(line)))
            IN  AddContentFromKeepingOpen(lines, i + 1,
                    IF list_text # ""
                    THEN Append(paras, StyleParagraph(AddParagraph(list_text, "List Bullet"), style_config))
                    ELSE paras,
                    open /\ list_text = "", style_config)
        ELSE IF IsNumbered(line) THEN
            LET list_text == Strip(SubSeq(line, 3, Len(line)))
            IN  AddContentFromKeepingOpen(lines, i + 1,
                    IF list_text # ""
                    THEN Append(paras, StyleParagraph(AddParagraph(list_text, "List Number"), style_config))
                    ELSE paras,
                    open /\ list_text = "", style_config)
        ELSE
            LET opened == IF open THEN paras
                          ELSE Append(paras, StyleParagraph(AddParagraph("", "Normal"), style_config))
                m == Len(opened)
                current_paragraph == opened[m]
                written == IF Contains(line, "**")
                           THEN AddFormattedText(current_paragraph, line)
                           ELSE [current_paragraph EXCEPT !.runs = Append(@, Run(line \o " "))]
            IN  AddContentFromKeepingOpen(lines, i + 1, [opened EXCEPT ![m] = written], TRUE, style_config)

RECURSIVE AddContentFrom(_, _, _, _, _)
\* the loop of _add_content from lines[i] on: paras are the paragraphs added so
\* far, open says that current_paragraph is not None (it is then the last one)
AddContentFrom(lines, i, paras, open, style_config) ==
    IF i > Len(lines) THEN paras
    ELSE
    LET line == Strip(lines[i])
        n == Len(paras)
    IN  IF line = "" THEN AddContentFrom(lines, i + 1, paras, FALSE, style_config)
        ELSE IF IsHeading2(line) THEN
            LET heading_text == Strip(Remove(line, "="))
            IN  AddContentFrom(lines, i + 1,
                    IF heading_text # ""
                    THEN Append(paras, StyleHeading(AddHeading(heading_text, 2), style_config))
                    ELSE paras,
                    FALSE, style_config)
        ELSE IF IsHeading3(line) THEN
            LET heading_text == Strip(Remove(Remove(line, "-"), "#"))
            IN  AddContentFrom(lines, i + 1,
                    IF heading_text # ""
                    THEN Append(paras, StyleHeading(AddHeading(heading_text, 3), style_config))
                    ELSE paras,
                    FALSE, style_config)
        ELSE IF IsBullet(line) THEN
            LET list_text == Strip(SubSeq(line, 2, Len(line)))
            IN  AddContentFrom(lines, i + 1,
                    IF list_text # ""
                    THEN Append(paras, StyleParagraph(AddParagraph(list_text, "List Bullet"), style_config))
                    ELSE paras,
                    FALSE, style_config)
        ELSE IF IsNumbered(line) THEN
            LET list_text == Strip(SubSeq(line, 3, Len(line)))
            IN  AddContentFrom(lines, i + 1,
                    IF list_text # ""
                    THEN Append(paras, StyleParagraph(AddParagraph(list_text, "List Number"), style_config))
                    ELSE paras,
                    FALSE, style_config)
        ELSE
            LET opened == IF open THEN paras
                          ELSE Append(paras, StyleParagraph(AddParagraph("", "Normal"), style_config))
                m == Len(opened)
                current_paragraph == opened[m]
                written == IF Contains(line, "**")
                           THEN AddFormattedText(current_paragraph, line)
                           ELSE [current_paragraph EXCEPT !.runs = Append(@, Run(line \o " "))]
            IN  AddContentFrom(lines, i + 1, [opened EXCEPT ![m] = written], TRUE, style_config)

\* _add_content(doc, content, style_config): the paragraphs it adds
AddContent(content, style_config) == AddContentFrom(Split(content, "\n"), 1, <<>>, FALSE, style_config)


(***************************************************************************)
(* Paths (pathlib, POSIX flavour) and the file system.  A directory entry  *)
(* is [kind |-> "dir"]; a file entry is [kind |-> "file"] with one more    *)
(* field for what it holds: docx, pdf, pptx, xlsx, or raw for bytes that   *)
(* are no office container.  The working directory "." always exists.      *)
(***************************************************************************)

\* str.rfind(c): the last position of the character c in s, 0 when there is none
RFind(s, c) ==
    IF \E i \in 1..Len(s) : CharAt(s, i) = c
    THEN CHOOSE i \in 1..Len(s) : CharAt(s, i) = c /\ \A j \in (i + 1)..Len(s) : CharAt(s, j) # c
    ELSE 0

\* Path.parts
Parts(path) == Split(path, "/")

\* Path.name
Name(path) == LET i == RFind(path, "/") IN SubSeq(path, i + 1, Len(path))

\* Path.parent ("." for a bare name)
Parent(path) == LET i == RFind(path, "/") IN IF i = 0 THEN "." ELSE SubSeq(path, 1, i - 1)

\* Path.suffix: from the last dot of the name, unless that dot is the name's
\* first or last character
Suffix(path) ==
    LET name == Name(path)
        i == RFind(name, ".")
    IN  IF 1 < i /\ i < Len(name) THEN SubSeq(name, i, Len(name)) ELSE ""

\* Path.exists()
Exists(f, path) == path = "." \/ path \in DOMAIN f

\* Path.is_file()
IsFile(f, path) == path \in DOMAIN f /\ f[path].kind = "file"

\* Path.is_dir()
IsDir(f, path) == path = "." \/ (path \in DOMAIN f /\ f[path].kind = "dir")

\* the file system with path set to entry
Put(f, path, entry) == [q \in DOMAIN f \cup {path} |-> IF q = path THEN entry ELSE f[q]]

\* Whether opening path for writing raises: its directory is missing, or the
\* path is a directory
WriteRaises(f, path) == IsDir(f, path) \/ ~IsDir(f, Parent(path))

\* str(e) of the OSError raised then
WriteError(f, path) ==
    IF IsDir(f, path) THEN "[Errno 21] Is a directory: '" \o path \o "'"
    ELSE "[Errno 2] No such file or directory: '" \o path \o "'"

\* str(e) of the exception a container library raises on a file that is not
\* a container of its format
DecodeError(path) == "File is not a valid container: '" \o path \o "'"

(***************************************************************************)
(* What an operation returns: its value (a text for most operations),       *)
(* whether the return is one of the operation's failure returns, and the    *)
(* format readers that were invoked on the way.                             *)
(***************************************************************************)
Ok(value, readers) == [value |-> value, failed |-> FALSE, readers |-> readers]

Failure(value, readers) == [value |-> value, failed |-> TRUE, readers |-> readers]


(***************************************************************************)
(* DocxWriter.create_document.  (The Turkish status texts are written     *)
(* without their diacritics: "olusturma hatasi", "basariyla olusturuldu".) *)
(***************************************************************************)

\* the document create_document builds in memory before it saves it
BuildDocument(content, title, style_config) ==
    LET cfg == IF style_config = None THEN DefaultStyleConfig ELSE style_config
    IN  [paragraphs |-> (IF Truthy(title) THEN <<AddTitle(title.v, cfg)>> ELSE <<>>)
                        \o AddContent(content, cfg),
         tables |-> <<>>,
         margins |-> Get(cfg, "margins", 100),
         page_numbers |-> Get(cfg, "add_page_numbers", TRUE)]

\* create_document(content, file_path, title, style_config): what it returns
\* and the file system it leaves
CreateDocument(f, content, file_path, title, style_config) ==
    IF WriteRaises(f, file_path)
    THEN [ret |-> Failure("DOCX olusturma hatasi: " \o WriteError(f, file_path), <<>>), fs |-> f]
    ELSE [ret |-> Ok("DOCX belgesi basariyla olusturuldu: " \o file_path, <<>>),
          fs |-> Put(f, file_path,
                     [kind |-> "file", docx |-> BuildDocument(content, title, style_config)])]

RECURSIVE SubsectionBlocks(_, _)
\* the loop over section['subsections'] from the k-th on: a level-3 heading
\* and, when there is a content, a paragraph
SubsectionBlocks(subsections, k) ==
    IF k > Len(subsections) THEN <<>>
    ELSE <<AddHeading(Get(subsections[k], "title", PyStr("Alt Baslik")).v, 3)>>
         \o (IF "content" \in DOMAIN subsections[k]
             THEN <<AddParagraph(Str(subsections[k]["content"]).v, "Normal")>>
             ELSE <<>>)
         \o SubsectionBlocks(subsections, k + 1)

RECURSIVE SectionBlocks(_, _)
\* the loop over data['sections'] from the k-th on: a level-2 heading, the
\* content (one bullet paragraph per item of a list, one paragraph
\* otherwise), the subsections
SectionBlocks(sections, k) ==
    IF k > Len(sections) THEN <<>>
    ELSE
    LET section == sections[k]
    IN  <<AddHeading(Get(section, "title", PyStr("Basliksiz Bolum")).v, 2)>>
        \o (IF "content" \in DOMAIN section
            THEN IF section["content"].t = "list"
                 THEN [i \in 1..Len(section["content"].items) |->
                          AddParagraph(Str(section["content"].items[i]).v, "List Bullet")]
                 ELSE <<AddParagraph(Str(section["content"]).v, "Normal")>>
            ELSE <<>>)
        \o (IF "subsections" \in DOMAIN section THEN SubsectionBlocks(section["subsections"], 1) ELSE <<>>)
        \o SectionBlocks(sections, k + 1)

\* the document create_structured_report builds: the page settings are the
\* template's (margins 0 here) and no page number is added
BuildStructuredReport(data) ==
    [paragraphs |->
        (IF "title" \in DOMAIN data
         THEN <<[AddHeading(data["title"].v, 1) EXCEPT !.alignment = "center"]>>
         ELSE <<>>)
        \o (IF "summary" \in DOMAIN data
            THEN <<AddHeading("EXECUTIVE SUMMARY", 2),
                   [AddParagraph(data["summary"].v, "Normal") EXCEPT !.space_after = 12]>>
            ELSE <<>>)
        \o (IF "sections" \in DOMAIN data THEN SectionBlocks(data["sections"], 1) ELSE <<>>),
     tables |-> <<>>,
     margins |-> 0,
     page_numbers |-> FALSE]

\* create_structured_report(data, file_path): what it returns and the file
\* system it leaves
CreateStructuredReport(f, data, file_path) ==
    IF WriteRaises(f, file_path)
    THEN [ret |-> Failure("Yapilandirilmis rapor olusturma hatasi: " \o WriteError(f, file_path), <<>>),
          fs |-> f]
    ELSE [ret |-> Ok("Yapilandirilmis rapor olusturuldu: " \o file_path, <<>>),
          fs |-> Put(f, file_path, [kind |-> "file", docx |-> BuildStructuredReport(data)])]

(***************************************************************************)
(* The format registry and the readers (src/src/extractors.py)             *)
(***************************************************************************)

\* DocumentExtractor.SUPPORTED_EXTENSIONS: the keys in the dict's order, and
\* the label of each
SupportedKeys == <<".pdf", ".docx", ".pptx", ".xlsx">>

SUPPORTED_EXTENSIONS ==
    [e \in {SupportedKeys[i] : i \in 1..Len(SupportedKeys)} |->
        CASE e = ".pdf" -> "PDF Document"
          [] e = ".docx" -> "Word Document"
          [] e = ".pptx" -> "PowerPoint Presentation"
          [] e = ".xlsx" -> "Excel Spreadsheet"]

\* `extension in self.SUPPORTED_EXTENSIONS`
IsSupported(extension) == extension \in DOMAIN SUPPORTED_EXTENSIONS

RECURSIVE NonBlankTexts(_)
\* the texts of the paragraphs whose text is not blank, in order
NonBlankTexts(paragraphs) ==
    IF Len(paragraphs) = 0 THEN <<>>
    ELSE (IF Strip(ParagraphText(paragraphs[1])) # "" THEN <<ParagraphText(paragraphs[1])>> ELSE <<>>)
         \o NonBlankTexts(Tail(paragraphs))

RECURSIVE RowTextKeepingBlanks(_)
\* the row text of _extract_docx taking every cell, blank or not
RowTextKeepingBlanks(cells) ==
    IF Len(cells) = 0 THEN <<>>
    ELSE <<Strip(cells[1])>> \o RowTextKeepingBlanks(Tail(cells))

RECURSIVE RowText(_)
\* the stripped texts of a table row's non-blank cells
RowText(cells) ==
    IF Len(cells) = 0 THEN <<>>
    ELSE (IF Strip(cells[1]) # "" THEN <<Strip(cells[1])>> ELSE <<>>) \o RowText(Tail(cells))

RECURSIVE RowLines(_)
\* one line per table row that has a non-blank cell
RowLines(rows) ==
    IF Len(rows) = 0 THEN <<>>
    ELSE (IF RowText(rows[1]) # <<>> THEN <<Join(RowText(rows[1]), " | ")>> ELSE <<>>)
         \o RowLines(Tail(rows))

RECURSIVE TableLines(_)
TableLines(tables) ==
    IF Len(tables) = 0 THEN <<>> ELSE RowLines(tables[1]) \o TableLines(Tail(tables))

\* _extract_docx without its own handler: the failure reaches the handler of
\* extract_from_file
ExtractDocxUnguarded(f, d, path) ==
    IF ~d.DOCX_AVAILABLE
    THEN Failure("Error: python-docx library not available. Install with: pip install python-docx",
                 <<"docx">>)
    ELSE IF "docx" \notin DOMAIN f[path]
    THEN Failure("Error processing " \o path \o ": " \o DecodeError(path), <<"docx">>)
    ELSE LET doc == f[path].docx
             text_parts == NonBlankTexts(doc.paragraphs) \o TableLines(doc.tables)
         IN  IF text_parts = <<>> THEN Ok("No text content found in DOCX", <<"docx">>)
             ELSE Ok(Join(text_parts, "\n"), <<"docx">>)

\* _extract_docx(path)
ExtractDocx(f, d, path) ==
    IF ~d.DOCX_AVAILABLE
    THEN Failure("Error: python-docx library not available. Install with: pip install python-docx",
                 <<"docx">>)
    ELSE IF "docx" \notin DOMAIN f[path]
    THEN Failure("Error reading DOCX: " \o DecodeError(path), <<"docx">>)
    ELSE LET doc == f[path].docx
             text_parts == NonBlankTexts(doc.paragraphs) \o TableLines(doc.tables)
         IN  IF text_parts = <<>> THEN Ok("No text content found in DOCX", <<"docx">>)
             ELSE Ok(Join(text_parts, "\n"), <<"docx">>)


RECURSIVE IntStr(_)
\* str(n) for n >= 0
IntStr(n) == IF n < 10 THEN CharAt("0123456789", n + 1) ELSE IntStr(n \div 10) \o CharAt("0123456789", (n % 10) + 1)

RECURSIVE PageParts(_, _)
\* the text_parts of the PDF readers for pages[i..]: a page whose text is
\* blank adds nothing
PageParts(pages, i) ==
    IF i > Len(pages) THEN <<>>
    ELSE (IF Strip(pages[i]) # "" THEN <<"--- Page " \o IntStr(i) \o " ---", pages[i], "">> ELSE <<>>)
         \o PageParts(pages, i + 1)

\* _extract_pdf(path), with _extract_pdf_pdfplumber / _extract_pdf_pypdf2
ExtractPdf(f, d, path) ==
    IF ~d.PDF_AVAILABLE
    THEN Failure("Error: PDF library not available. Install with: pip install pdfplumber", <<"pdf">>)
    ELSE IF "pdf" \notin DOMAIN f[path]
    THEN Failure("Error reading PDF: " \o DecodeError(path), <<"pdf">>)
    ELSE LET text_parts == PageParts(f[path].pdf, 1)
         IN  IF text_parts = <<>> THEN Ok("No text content found in PDF", <<"pdf">>)
             ELSE Ok(Join(text_parts, "\n"), <<"pdf">>)

RECURSIVE ShapeTexts(_)
\* the texts of a slide's shapes that have a text and whose text is not blank
ShapeTexts(shapes) ==
    IF Len(shapes) = 0 THEN <<>>
    ELSE (IF shapes[1].has_text /\ Strip(shapes[1].text) # "" THEN <<shapes[1].text>> ELSE <<>>)
         \o ShapeTexts(Tail(shapes))

RECURSIVE SlidePartsKeepingEveryMarker(_, _)
\* _extract_pptx adding a slide's marker whether or not the slide has a text
SlidePartsKeepingEveryMarker(slides, i) ==
    IF i > Len(slides) THEN <<>>
    ELSE LET slide_text == <<"--- Slide " \o IntStr(i) \o " ---">> \o ShapeTexts(slides[i])
         IN  slide_text \o <<"">> \o SlidePartsKeepingEveryMarker(slides, i + 1)

RECURSIVE SlideParts(_, _)
\* the text_parts of _extract_pptx for slides[i..]
SlideParts(slides, i) ==
    IF i > Len(slides) THEN <<>>
    ELSE LET slide_text == <<"--- Slide " \o IntStr(i) \o " ---">> \o ShapeTexts(slides[i])
         IN  (IF Len(slide_text) > 1 THEN slide_text \o <<"">> ELSE <<>>) \o SlideParts(slides, i + 1)

\* _extract_pptx(path)
ExtractPptx(f, d, path) ==
    IF ~d.PPTX_AVAILABLE
    THEN Failure("Error: python-pptx library not available. Install with: pip install python-pptx",
                 <<"pptx">>)
    ELSE IF "pptx" \notin DOMAIN f[path]
    THEN Failure("Error reading PPTX: " \o DecodeError(path), <<"pptx">>)
    ELSE LET text_parts == SlideParts(f[path].pptx, 1)
         IN  IF text_parts = <<>> THEN Ok("No text content found in PPTX", <<"pptx">>)
             ELSE Ok(Join(text_parts, "\n"), <<"pptx">>)


(***************************************************************************)
(* Workbooks (openpyxl).  A workbook is the sequence of its sheet names    *)
(* and, per name, the sheet; a sheet is the map of its cells, <<row,       *)
(* column>> -> value, defined for the cells that exist.                    *)
(***************************************************************************)

\* an empty function
NoCells == [rc \in {} |-> None]

\* the styles of a sheet nothing was styled on: the columns whose row-1 cell
\* has the header font and fill, the widths set on columns, and the cells
\* with a border
NoStyles == [header |-> {}, widths |-> [c \in {} |-> 0], borders |-> {}]

\* a sheet as wb.create_sheet makes it
NewSheet == [cells |-> NoCells, styles |-> NoStyles]

\* Workbook() followed by wb.remove(wb.active): no sheet at all
EmptyWorkbook == [sheetnames |-> <<>>, sheets |-> [n \in {} |-> NoCells]]

Max(S) == CHOOSE x \in S : \A y \in S : y <= x

\* `sheet_name in wb.sheetnames`
HasSheet(wb, name) == \E i \in 1..Len(wb.sheetnames) : wb.sheetnames[i] = name

\* ws.max_row: the highest row with a cell, 1 for a sheet with no cell
MaxRow(ws) == IF DOMAIN ws.cells = {} THEN 1 ELSE Max({rc[1] : rc \in DOMAIN ws.cells})

\* ws.max_column, likewise
MaxColumn(ws) == IF DOMAIN ws.cells = {} THEN 1 ELSE Max({rc[2] : rc \in DOMAIN ws.cells})

\* worksheet.cell(row, column, value): the cell is created and given the value
SetCell(ws, row, column, value) ==
    [ws EXCEPT !.cells = [rc \in DOMAIN ws.cells \cup {<<row, column>>} |->
                             IF rc = <<row, column>> THEN value ELSE ws.cells[rc]]]

RECURSIVE WriteRow(_, _, _, _)
\* `for col_idx, value in enumerate(values, 1): worksheet.cell(row, col_idx, value)`
WriteRow(ws, row, values, col_idx) ==
    IF col_idx > Len(values) THEN ws
    ELSE WriteRow(SetCell(ws, row, col_idx, values[col_idx]), row, values, col_idx + 1)

\* the values each rendered by str()
StrAll(values) == [i \in 1..Len(values) |-> Str(values[i])]

\* whether s is made of digits
IsDigits(s) == s # "" /\ \A i \in 1..Len(s) : IsDigit(CharAt(s, i))

RECURSIVE ToInt(_)
\* int(s) of a text of digits
ToInt(s) ==
    IF s = "" THEN 0
    ELSE ToInt(SubSeq(s, 1, Len(s) - 1)) * 10 + (Ord(CharAt(s, Len(s))) - Ord("0"))

\* the characters a sheet title may not hold
TitleRaises(title) == \E i \in 1..Len(title) : CharAt(title, i) \in {"\\", "*", "?", ":", "/", "[", "]"}

\* str(e) of the ValueError raised then
TitleError(title) ==
    "Invalid character "
    \o CharAt(title, CHOOSE i \in 1..Len(title) :
                        /\ CharAt(title, i) \in {"\\", "*", "?", ":", "/", "[", "]"}
                        /\ \A j \in 1..(i - 1) : CharAt(title, j) \notin {"\\", "*", "?", ":", "/", "[", "]"})
    \o " found in sheet title"

\* the title openpyxl gives a new sheet: the asked one, or, when the workbook
\* has a sheet of that name in whatever case, the asked one with a number
\* added, one above the highest number so added to that name
FreeTitle(wb, title) ==
    LET names == {wb.sheetnames[i] : i \in 1..Len(wb.sheetnames)}
        numbered == {n \in names : /\ Len(n) > Len(title)
                                   /\ Lower(SubSeq(n, 1, Len(title))) = Lower(title)
                                   /\ IsDigits(SubSeq(n, Len(title) + 1, Len(n)))}
        counts == {ToInt(SubSeq(n, Len(title) + 1, Len(n))) : n \in numbered}
    IN  IF \A n \in names : Lower(n) # Lower(title) THEN title
        ELSE title \o IntStr(IF counts = {} THEN 1 ELSE Max(counts) + 1)

\* wb.create_sheet(title): a new empty sheet after the others
CreateSheet(wb, title) ==
    LET name == FreeTitle(wb, title)
    IN  [sheetnames |-> Append(wb.sheetnames, name),
         sheets |-> [n \in DOMAIN wb.sheets \cup {name} |->
                        IF n = name THEN NewSheet ELSE wb.sheets[n]]]

\* the workbook with sheet name replaced by ws
WithSheet(wb, name, ws) == [wb EXCEPT !.sheets[name] = ws]

\* what wb.save writes of a sheet: a cell whose value is None (and that has
\* no style) is not written, so it is not there when the file is loaded
SavedSheet(ws) ==
    [ws EXCEPT !.cells = [rc \in {q \in DOMAIN ws.cells : ws.cells[q] # None} |-> ws.cells[rc]]]

\* the workbook as wb.save(file_path) leaves it on disk
SavedWorkbook(wb) ==
    [wb EXCEPT !.sheets = [n \in DOMAIN wb.sheets |-> SavedSheet(wb.sheets[n])]]

\* the values of row r of a sheet, columns 1..max column of that row (a
\* missing cell reads as None, as ws.cell(r, c).value does)
RowValues(ws, r) ==
    LET cols == {rc[2] : rc \in {q \in DOMAIN ws.cells : q[1] = r}}
    IN  IF cols = {} THEN <<>>
        ELSE [c \in 1..Max(cols) |-> IF <<r, c>> \in DOMAIN ws.cells THEN ws.cells[<<r, c>>] ELSE None]


(***************************************************************************)
(* The spreadsheet writer (src/src/xlsx_writer.py).  A payload is a list   *)
(* [t |-> "list", items], a dict [t |-> "dict", keys, vals] (in insertion  *)
(* order), a frame [t |-> "DataFrame", columns, index, rows] or a scalar.  *)
(***************************************************************************)
PyList(items) == [t |-> "list", items |-> items]

PyDict(keys, vals) == [t |-> "dict", keys |-> keys, vals |-> vals]

DataFrame(columns, index, rows) == [t |-> "DataFrame", columns |-> columns, index |-> index, rows |-> rows]

\* isinstance(x, (list, tuple)) / isinstance(x, list)
IsList(x) == x.t = "list"

\* isinstance(x, dict)
IsDict(x) == x.t = "dict"

\* hasattr(x, 'to_excel')
IsFrame(x) == x.t = "DataFrame"

\* len(str(cell.value)) of a cell of the sheet's grid (str(None) is "None")
ShownLength(ws, r, c) == IF <<r, c>> \in DOMAIN ws.cells THEN Len(ws.cells[<<r, c>>].v) ELSE 4

\* _apply_default_formatting(worksheet): the header font and fill on row 1,
\* every column as wide as its longest value plus 2 and at most 50, a thin
\* border on every cell that has a value.  (The empty cells that walking
\* row 1 creates hold no value and are not kept among the cells.)
ApplyDefaultFormatting(ws) ==
    LET columns == 1..MaxColumn(ws)
        max_length(c) == Max({0} \cup {ShownLength(ws, r, c) : r \in 1..MaxRow(ws)})
    IN  [ws EXCEPT !.styles =
            [header |-> columns,
             widths |-> [c \in columns |-> IF max_length(c) + 2 < 50 THEN max_length(c) + 2 ELSE 50],
             borders |-> {rc \in DOMAIN ws.cells : ws.cells[rc] # None}]]

\* `if kwargs.get('apply_formatting', default): _apply_default_formatting(ws)`
FormatIfAsked(ws, kwargs, default) ==
    IF Get(kwargs, "apply_formatting", default) THEN ApplyDefaultFormatting(ws) ELSE ws

RECURSIVE WritePairs(_, _, _, _)
\* the loop of _write_dict_to_sheet and _append_dict_to_sheet: the k-th pair
\* of data goes to row start + k - 1, key in column 1 and value in column 2
WritePairs(ws, data, start, k) ==
    IF k > Len(data.keys) THEN ws
    ELSE WritePairs(SetCell(SetCell(ws, start + k - 1, 1, Str(data.keys[k])),
                            start + k - 1, 2, Str(data.vals[k])),
                    data, start, k + 1)

\* _write_dict_to_sheet(worksheet, data, **kwargs)
WriteDictToSheet(ws, data, kwargs) == FormatIfAsked(WritePairs(ws, data, 1, 1), kwargs, FALSE)

RECURSIVE WriteListFrom(_, _, _)
\* the loop of _write_list_to_sheet from the item that enumerate(data, 1)
\* numbers row_idx
WriteListFrom(ws, data, row_idx) ==
    IF row_idx > Len(data.items) THEN ws
    ELSE
    LET item == data.items[row_idx]
        written ==
            IF IsList(item) THEN WriteRow(ws, row_idx, StrAll(item.items), 1)
            ELSE IF IsDict(item) THEN
                \* the headers go to row 1 and the first dict's values to row 2;
                \* the next item is numbered 2 again by enumerate
                IF row_idx = 1
                THEN WriteRow(WriteRow(ws, row_idx, StrAll(item.keys), 1), row_idx + 1, StrAll(item.vals), 1)
                ELSE WriteRow(ws, row_idx, StrAll(item.vals), 1)
            ELSE SetCell(ws, row_idx, 1, Str(item))
    IN  WriteListFrom(written, data, row_idx + 1)

\* _write_list_to_sheet(worksheet, data, **kwargs)
WriteListToSheet(ws, data, kwargs) == FormatIfAsked(WriteListFrom(ws, data, 1), kwargs, FALSE)

\* dataframe_to_rows(df, index, header): the header row (under an empty index
\* cell), the row of the index names ([None]) when the index is included,
\* then one row per frame row
DataframeToRows(df, index, header) ==
    (IF header THEN <<(IF index THEN <<None>> ELSE <<>>) \o df.columns>> ELSE <<>>)
    \o (IF index THEN <<<<None>>>> ELSE <<>>)
    \o [i \in 1..Len(df.rows) |-> (IF index THEN <<df.index[i]>> ELSE <<>>) \o df.rows[i]]

RECURSIVE WriteRowsAt(_, _, _, _)
\* rows[k..] written one per row, rows[k] to row start + k - 1
WriteRowsAt(ws, rows, start, k) ==
    IF k > Len(rows) THEN ws
    ELSE WriteRowsAt(WriteRow(ws, start + k - 1, rows[k], 1), rows, start, k + 1)

\* _write_dataframe_to_sheet(worksheet, df, **kwargs): worksheet.append of
\* every row, on the new sheet from row 1 on
WriteDataframeToSheet(ws, df, kwargs) ==
    FormatIfAsked(WriteRowsAt(ws, DataframeToRows(df, Get(kwargs, "include_index", TRUE), TRUE), 1, 1),
                  kwargs, TRUE)

RECURSIVE AppendItems(_, _, _, _)
\* the loop of _append_list_to_sheet: item k goes to row start_row + k - 1
AppendItems(ws, data, start_row, k) ==
    IF k > Len(data.items) THEN ws
    ELSE
    LET item == data.items[k]
        current_row == start_row + k - 1
        written ==
            IF IsList(item) THEN WriteRow(ws, current_row, StrAll(item.items), 1)
            ELSE IF IsDict(item) THEN WriteRow(ws, current_row, StrAll(item.vals), 1)
            ELSE SetCell(ws, current_row, 1, Str(item))
    IN  AppendItems(written, data, start_row, k + 1)

\* a variant that numbers the rows from 1 as _write_list_to_sheet does,
\* whatever start_row is
AppendListFromTop(ws, data, start_row) == AppendItems(ws, data, 1, 1)

\* _append_list_to_sheet(worksheet, data, start_row)
AppendListToSheet(ws, data, start_row) == AppendItems(ws, data, start_row, 1)

\* _append_dict_to_sheet(worksheet, data, start_row)
AppendDictToSheet(ws, data, start_row) == WritePairs(ws, data, start_row, 1)

\* _append_dataframe_to_sheet(worksheet, df, start_row)
AppendDataframeToSheet(ws, df, start_row, include_index) ==
    WriteRowsAt(ws, DataframeToRows(df, include_index, FALSE), start_row, 1)


\* the directories path.parent.mkdir(parents=True) makes sure of: dir and
\* the directories above it, the working directory apart
Ancestors(dir) ==
    IF dir = "." THEN {}
    ELSE {SubSeq(dir, 1, i) : i \in {j \in 1..Len(dir) : j = Len(dir) \/ CharAt(dir, j + 1) = "/"}}

\* mkdir raises when one of them exists and is a file
MkdirRaises(f, dir) == \E q \in Ancestors(dir) : IsFile(f, q)

MkdirError(f, dir) == "[Errno 17] File exists: '" \o (CHOOSE q \in Ancestors(dir) : IsFile(f, q)) \o "'"

\* the file system after path.parent.mkdir(parents=True, exist_ok=True)
Mkdir(f, dir) ==
    [q \in DOMAIN f \cup Ancestors(dir) |-> IF q \in DOMAIN f THEN f[q] ELSE [kind |-> "dir"]]

\* the text every spreadsheet operation returns when XLSX_AVAILABLE is false
XlsxMissing ==
    "Error: openpyxl and pandas libraries not available. Install with: pip install openpyxl pandas"

\* the branch of create_workbook's loop for one sheet's data
WriteSheetData(ws, sheet_data, kwargs) ==
    IF IsDict(sheet_data) THEN WriteDictToSheet(ws, sheet_data, kwargs)
    ELSE IF IsList(sheet_data) THEN WriteListToSheet(ws, sheet_data, kwargs)
    ELSE IF IsFrame(sheet_data) THEN WriteDataframeToSheet(ws, sheet_data, kwargs)
    ELSE SetCell(ws, 1, 1, Str(sheet_data))

RECURSIVE FillSheets(_, _, _, _)
\* the loop of create_workbook over data.items() from the k-th entry on
FillSheets(wb, data, kwargs, k) ==
    IF k > Len(data.keys) THEN wb
    ELSE LET created == CreateSheet(wb, data.keys[k])
             name == created.sheetnames[Len(created.sheetnames)]
         IN  FillSheets(WithSheet(created, name, WriteSheetData(created.sheets[name], data.vals[k], kwargs)),
                        data, kwargs, k + 1)

\* a variant that opens the workbook already at the destination, when there
\* is one, and adds the sheets to it
CreateWorkbookOverExisting(f, d, data, file_path, kwargs) ==
    IF ~d.XLSX_AVAILABLE THEN [ret |-> Failure(XlsxMissing, <<>>), fs |-> f]
    ELSE IF MkdirRaises(f, Parent(file_path))
    THEN [ret |-> Failure("Error creating XLSX workbook: " \o MkdirError(f, Parent(file_path)), <<>>),
          fs |-> f]
    ELSE
    LET made == Mkdir(f, Parent(file_path))
        wb == FillSheets(IF IsFile(f, file_path) THEN f[file_path].xlsx ELSE EmptyWorkbook, data, kwargs, 1)
    IN  IF WriteRaises(made, file_path)
        THEN [ret |-> Failure("Error creating XLSX workbook: " \o WriteError(made, file_path), <<>>),
              fs |-> made]
        ELSE [ret |-> Ok("XLSX workbook created successfully: " \o file_path, <<>>),
              fs |-> Put(made, file_path, [kind |-> "file", xlsx |-> SavedWorkbook(wb)])]

\* create_workbook(data, file_path, **kwargs): what it returns and the file
\* system it leaves
CreateWorkbook(f, d, data, file_path, kwargs) ==
    IF ~d.XLSX_AVAILABLE THEN [ret |-> Failure(XlsxMissing, <<>>), fs |-> f]
    ELSE IF MkdirRaises(f, Parent(file_path))
    THEN [ret |-> Failure("Error creating XLSX workbook: " \o MkdirError(f, Parent(file_path)), <<>>),
          fs |-> f]
    ELSE
    LET made == Mkdir(f, Parent(file_path))
        wb == FillSheets(EmptyWorkbook, data, kwargs, 1)
        refused == {k \in 1..Len(data.keys) : TitleRaises(data.keys[k])}
    IN  IF refused # {}
        THEN [ret |-> Failure("Error creating XLSX workbook: "
                              \o TitleError(data.keys[CHOOSE k \in refused : \A j \in refused : k <= j]),
                              <<>>),
              fs |-> made]
        ELSE IF Len(wb.sheetnames) = 0
        THEN [ret |-> Failure("Error creating XLSX workbook: At least one sheet must be visible", <<>>),
              fs |-> made]
        ELSE IF WriteRaises(made, file_path)
        THEN [ret |-> Failure("Error creating XLSX workbook: " \o WriteError(made, file_path), <<>>),
              fs |-> made]
        ELSE [ret |-> Ok("XLSX workbook created successfully: " \o file_path, <<>>),
              fs |-> Put(made, file_path, [kind |-> "file", xlsx |-> SavedWorkbook(wb)])]

\* df.to_excel(writer, sheet_name, index) on the new sheet: the column
\* names in row 1 (after an empty cell when the index is written), then one
\* row per frame row, the values as they are
ToExcel(ws, df, index) ==
    WriteRowsAt(ws,
                <<(IF index THEN <<None>> ELSE <<>>) \o df.columns>>
                \o [i \in 1..Len(df.rows) |-> (IF index THEN <<df.index[i]>> ELSE <<>>) \o df.rows[i]],
                1, 1)

RECURSIVE FillFrames(_, _, _, _)
\* the loop of create_dataframe_workbook over dataframes.items() from the
\* k-th entry on
FillFrames(wb, dataframes, kwargs, k) ==
    IF k > Len(dataframes.keys) THEN wb
    ELSE LET created == CreateSheet(wb, dataframes.keys[k])
             name == created.sheetnames[Len(created.sheetnames)]
             written == ToExcel(created.sheets[name], dataframes.vals[k], Get(kwargs, "include_index", TRUE))
         IN  FillFrames(WithSheet(created, name, FormatIfAsked(written, kwargs, TRUE)),
                        dataframes, kwargs, k + 1)

\* a variant that makes the directory before it looks at XLSX_AVAILABLE
CreateDataframeWorkbookMkdirFirst(f, d, dataframes, file_path, kwargs) ==
    IF MkdirRaises(f, Parent(file_path))
    THEN [ret |-> Failure("Error creating DataFrame workbook: " \o MkdirError(f, Parent(file_path)), <<>>),
          fs |-> f]
    ELSE [ret |-> Failure(XlsxMissing, <<>>), fs |-> Mkdir(f, Parent(file_path))]

\* create_dataframe_workbook(dataframes, file_path, **kwargs) for frames
\* under distinct sheet names: what it returns and the file system it
\* leaves.  pd.ExcelWriter opens the file when it is made and saves the
\* workbook when the with block is left; with no frame at all the save
\* raises and the opened file stays behind empty.
CreateDataframeWorkbook(f, d, dataframes, file_path, kwargs) ==
    IF ~d.XLSX_AVAILABLE THEN [ret |-> Failure(XlsxMissing, <<>>), fs |-> f]
    ELSE IF MkdirRaises(f, Parent(file_path))
    THEN [ret |-> Failure("Error creating DataFrame workbook: " \o MkdirError(f, Parent(file_path)), <<>>),
          fs |-> f]
    ELSE
    LET made == Mkdir(f, Parent(file_path))
        wb == FillFrames(EmptyWorkbook, dataframes, kwargs, 1)
    IN  IF WriteRaises(made, file_path)
        THEN [ret |-> Failure("Error creating DataFrame workbook: " \o WriteError(made, file_path), <<>>),
              fs |-> made]
        ELSE IF Len(wb.sheetnames) = 0
        THEN [ret |-> Failure("Error creating DataFrame workbook: At least one sheet must be visible", <<>>),
              fs |-> Put(made, file_path, [kind |-> "file", raw |-> ""])]
        ELSE [ret |-> Ok("DataFrame workbook created successfully: " \o file_path, <<>>),
              fs |-> Put(made, file_path, [kind |-> "file", xlsx |-> SavedWorkbook(wb)])]

\* Workbook(): one sheet, the active one, titled Sheet
DefaultWorkbook == [sheetnames |-> <<"Sheet">>, sheets |-> [n \in {"Sheet"} |-> NewSheet]]

\* `summary_ws.title = "Summary"` on the only sheet of a new workbook
TitledSummary(wb) == [sheetnames |-> <<"Summary">>, sheets |-> [n \in {"Summary"} |-> wb.sheets["Sheet"]]]

\* the first three cells of the summary sheet: the title (Report when the
\* report has none), the generation time as the clock gives it, and the
\* description (the empty text when the report has none)
SummarySheet(ws, report_data, now) ==
    SetCell(SetCell(SetCell(ws, 1, 1, Get(report_data, "title", PyStr("Report"))),
                    2, 1, PyStr("Generated: " \o now)),
            3, 1, Get(report_data, "description", PyStr("")))

\* `'dataframe' in section_data`
HasDataframe(section_data) ==
    \E i \in 1..Len(section_data.keys) : section_data.keys[i] = PyStr("dataframe")

\* section_data['dataframe']
DataframeOf(section_data) ==
    section_data.vals[CHOOSE i \in 1..Len(section_data.keys) : section_data.keys[i] = PyStr("dataframe")]

\* str(df[column]) of the c-th column: one line per row, index and value,
\* then the name and the dtype (pandas' alignment is not kept)
SeriesStr(df, c) ==
    Join([i \in 1..Len(df.rows) |-> df.index[i].v \o "    " \o df.rows[i][c].v] \o
         <<"Name: " \o df.columns[c].v \o ", dtype: "
           \o (IF \A i \in 1..Len(df.rows) : df.rows[i][c].t = "int" THEN "int64" ELSE "object")>>,
         "\n")

\* df.items(): the pairs of a column's name and the column
FrameItems(df) ==
    PyDict(df.columns, [c \in 1..Len(df.columns) |-> PyStr(SeriesStr(df, c))])

\* the last branch of the section loop calls _write_dict_to_sheet on whatever
\* is left, and a value that is neither a dict, a list nor a frame has no
\* items()
SectionRaises(section_data) == ~IsDict(section_data) /\ ~IsList(section_data) /\ ~IsFrame(section_data)

\* str(e) of the AttributeError raised then
SectionError(section_data) ==
    "'" \o (IF section_data.t = "int" THEN "int" ELSE "str") \o "' object has no attribute 'items'"

\* the branch of create_report_workbook's loop for one section, formatting
\* always asked for
WriteSectionData(ws, section_data) ==
    LET formatted == [k \in {"apply_formatting"} |-> TRUE]
    IN  IF IsDict(section_data) /\ HasDataframe(section_data)
        THEN WriteDataframeToSheet(ws, DataframeOf(section_data), formatted)
        ELSE IF IsList(section_data) THEN WriteListToSheet(ws, section_data, formatted)
        ELSE IF IsFrame(section_data) THEN WriteDictToSheet(ws, FrameItems(section_data), formatted)
        ELSE WriteDictToSheet(ws, section_data, formatted)

RECURSIVE FillSections(_, _, _)
\* the loop of create_report_workbook over data_sections.items() from the
\* k-th entry on: the workbook it ends with, or the error it stops at
FillSections(wb, data_sections, k) ==
    IF k > Len(data_sections.keys) THEN [raised |-> FALSE, wb |-> wb]
    ELSE IF TitleRaises(data_sections.keys[k])
    THEN [raised |-> TRUE, error |-> TitleError(data_sections.keys[k])]
    ELSE IF SectionRaises(data_sections.vals[k])
    THEN [raised |-> TRUE, error |-> SectionError(data_sections.vals[k])]
    ELSE LET created == CreateSheet(wb, data_sections.keys[k])
             name == created.sheetnames[Len(created.sheetnames)]
         IN  FillSections(WithSheet(created, name, WriteSectionData(created.sheets[name], data_sections.vals[k])),
                          data_sections, k + 1)

\* create_report_workbook(report_data, file_path) when the clock reads now:
\* what it returns and the file system it leaves
CreateReportWorkbook(f, d, report_data, file_path, now) ==
    IF ~d.XLSX_AVAILABLE THEN [ret |-> Failure(XlsxMissing, <<>>), fs |-> f]
    ELSE IF MkdirRaises(f, Parent(file_path))
    THEN [ret |-> Failure("Error creating report workbook: " \o MkdirError(f, Parent(file_path)), <<>>),
          fs |-> f]
    ELSE
    LET made == Mkdir(f, Parent(file_path))
        titled == TitledSummary(DefaultWorkbook)
        summary == WithSheet(titled, "Summary", SummarySheet(titled.sheets["Summary"], report_data, now))
        filled == FillSections(summary, Get(report_data, "data", PyDict(<<>>, <<>>)), 1)
    IN  IF filled.raised
        THEN [ret |-> Failure("Error creating report workbook: " \o filled.error, <<>>), fs |-> made]
        ELSE IF WriteRaises(made, file_path)
        THEN [ret |-> Failure("Error creating report workbook: " \o WriteError(made, file_path), <<>>),
              fs |-> made]
        ELSE [ret |-> Ok("Report workbook created successfully: " \o file_path, <<>>),
              fs |-> Put(made, file_path, [kind |-> "file", xlsx |-> SavedWorkbook(filled.wb)])]

\* the workbook append_to_workbook works on: the file's, or a new one
LoadOrNew(f, file_path) == IF Exists(f, file_path) THEN f[file_path].xlsx ELSE EmptyWorkbook

\* the row append_to_workbook starts writing at
NextRow(wb, sheet_name) == IF HasSheet(wb, sheet_name) THEN MaxRow(wb.sheets[sheet_name]) + 1 ELSE 1

\* the branch of append_to_workbook for the data's type
AppendData(ws, data, next_row, kwargs) ==
    IF IsList(data) THEN AppendListToSheet(ws, data, next_row)
    ELSE IF IsDict(data) THEN AppendDictToSheet(ws, data, next_row)
    ELSE IF IsFrame(data) THEN AppendDataframeToSheet(ws, data, next_row, Get(kwargs, "include_index", TRUE))
    ELSE SetCell(ws, next_row, 1, Str(data))

\* the workbook append_to_workbook saves
Appended(wb, sheet_name, data, kwargs) ==
    LET got == IF HasSheet(wb, sheet_name) THEN wb ELSE CreateSheet(wb, sheet_name)
    IN  WithSheet(got, sheet_name,
                  AppendData(got.sheets[sheet_name], data, NextRow(wb, sheet_name), kwargs))

\* append_to_workbook(file_path, sheet_name, data, **kwargs)
AppendToWorkbook(f, d, file_path, sheet_name, data, kwargs) ==
    IF ~d.XLSX_AVAILABLE THEN [ret |-> Failure(XlsxMissing, <<>>), fs |-> f]
    ELSE IF Exists(f, file_path) /\ "xlsx" \notin DOMAIN f[file_path]
    THEN [ret |-> Failure("Error appending to workbook: " \o DecodeError(file_path), <<>>), fs |-> f]
    ELSE IF WriteRaises(f, file_path)
    THEN [ret |-> Failure("Error appending to workbook: " \o WriteError(f, file_path), <<>>), fs |-> f]
    ELSE [ret |-> Ok("Data appended to " \o file_path \o ", sheet '" \o sheet_name \o "'", <<>>),
          fs |-> Put(f, file_path,
                     [kind |-> "file",
                      xlsx |-> SavedWorkbook(Appended(LoadOrNew(f, file_path), sheet_name, data, kwargs))])]


(***************************************************************************)
(* The spreadsheet reader and extract_from_file (src/src/extractors.py).   *)
(* pandas' renderings (DataFrame.to_string, describe) are kept to one line *)
(* per row and one line per summary; what the reader itself decides (the   *)
(* sections, their order, the empty and the error cases) is as in the code.*)
(***************************************************************************)

RECURSIVE Repeat(_, _)
\* s * n
Repeat(s, n) == IF n = 0 THEN "" ELSE s \o Repeat(s, n - 1)

\* the sheets pd.read_excel raises on (a workbook written by this program has none)
Unreadable(wb) == IF "unreadable" \in DOMAIN wb THEN wb.unreadable ELSE {}

\* df.shape of pd.read_excel(sheet): the first row is the header, the rows
\* below it down to the last one with a cell are the data
FrameRows(ws) == IF DOMAIN ws.cells = {} THEN 0 ELSE MaxRow(ws) - 1

FrameColumns(ws) == IF DOMAIN ws.cells = {} THEN 0 ELSE MaxColumn(ws)

\* str(col) of the c-th column: the header cell, or pandas' name for a blank one
ColumnName(ws, c) ==
    IF <<1, c>> \in DOMAIN ws.cells THEN ws.cells[<<1, c>>].v ELSE "Unnamed: " \o IntStr(c - 1)

\* the rendering of one value in DataFrame.to_string
Shown(ws, r, c) == IF <<r, c>> \in DOMAIN ws.cells THEN ws.cells[<<r, c>>].v ELSE "NaN"

\* whether the column holds numbers only (a numeric dtype)
IsNumeric(ws, c) ==
    \A r \in 2..MaxRow(ws) : <<r, c>> \in DOMAIN ws.cells => ws.cells[<<r, c>>].t = "int"

\* str(dtype) of the column
DType(ws, c) ==
    IF ~IsNumeric(ws, c) THEN "object"
    ELSE IF \A r \in 2..MaxRow(ws) : <<r, c>> \in DOMAIN ws.cells THEN "int64"
    ELSE "float64"

\* df[col].count()
NonNull(ws, c) == Cardinality({r \in 2..MaxRow(ws) : <<r, c>> \in DOMAIN ws.cells})

\* the lines _extract_xlsx adds for a sheet that pandas could read
SheetParts(ws, sheet_name) ==
    LET rows == FrameRows(ws)
        cols == FrameColumns(ws)
        names == [c \in 1..cols |-> ColumnName(ws, c)]
        shown == IF rows < 10 THEN rows ELSE 10
        numeric == {c \in 1..cols : IsNumeric(ws, c)}
    IN  <<"=== Sheet: " \o sheet_name \o " ===",
          "Dimensions: " \o IntStr(rows) \o " rows x " \o IntStr(cols) \o " columns">>
        \o (IF rows = 0 \/ cols = 0 THEN <<"Sheet is empty">>
            ELSE <<"\nColumns:", Join(names, ", "), "\nSample Data (first 10 rows):",
                   "   " \o Join(names, "  ") \o "\n" \o
                   Join([r \in 1..shown |->
                            IntStr(r - 1) \o "  " \o Join([c \in 1..cols |-> Shown(ws, r + 1, c)], "  ")],
                        "\n")>>
                 \o (IF numeric # {} THEN <<"\nNumeric Summary:", "count mean std min 25% 50% 75% max">>
                     ELSE <<>>)
                 \o <<"\nData Types:">>
                 \o [c \in 1..cols |->
                        names[c] \o ": " \o DType(ws, c) \o " (" \o IntStr(NonNull(ws, c)) \o "/"
                        \o IntStr(rows) \o " non-null)"])
        \o <<"\n" \o Repeat("=", 50), "">>

RECURSIVE SheetsPartsStoppingAtError(_, _)
\* the loop of _extract_xlsx leaving at the first sheet that raises
SheetsPartsStoppingAtError(wb, k) ==
    IF k > Len(wb.sheetnames) THEN <<>>
    ELSE LET sheet_name == wb.sheetnames[k]
         IN  IF sheet_name \in Unreadable(wb)
             THEN <<"Error reading sheet '" \o sheet_name \o "': " \o "cannot read sheet", "">>
             ELSE SheetParts(wb.sheets[sheet_name], sheet_name)
                  \o SheetsPartsStoppingAtError(wb, k + 1)

RECURSIVE SheetsParts(_, _)
\* the loop of _extract_xlsx over workbook.sheetnames[k..]: a sheet that
\* raises adds its error line and the loop goes on
SheetsParts(wb, k) ==
    IF k > Len(wb.sheetnames) THEN <<>>
    ELSE LET sheet_name == wb.sheetnames[k]
         IN  (IF sheet_name \in Unreadable(wb)
              THEN <<"Error reading sheet '" \o sheet_name \o "': " \o "cannot read sheet", "">>
              ELSE SheetParts(wb.sheets[sheet_name], sheet_name))
             \o SheetsParts(wb, k + 1)

\* _extract_xlsx(path)
ExtractXlsx(f, d, path) ==
    IF ~d.XLSX_AVAILABLE
    THEN Failure("Error: openpyxl and pandas libraries not available. Install with: pip install openpyxl pandas",
                 <<"xlsx">>)
    ELSE IF "xlsx" \notin DOMAIN f[path]
    THEN Failure("Error reading XLSX: " \o DecodeError(path), <<"xlsx">>)
    ELSE LET workbook == f[path].xlsx
             text_parts == <<"Excel Workbook: " \o Name(path),
                             "Number of sheets: " \o IntStr(Len(workbook.sheetnames)),
                             Repeat("=", 50), "">>
                           \o SheetsParts(workbook, 1)
         IN  IF Len(text_parts) <= 4 THEN Ok("No readable content found in XLSX file", <<"xlsx">>)
             ELSE Ok(Join(text_parts, "\n"), <<"xlsx">>)

\* The argument of extract_from_file: a path text, or a value Path() cannot
\* take (Path(None) raises TypeError); NotAPath stands for such a value.
NotAPath == "<None>"

\* str(e) of that TypeError
PathTypeError == "expected str, bytes or os.PathLike object, not NoneType"

\* extract_from_file testing the extension before it looks at the path
ExtractFromFileExtensionFirst(f, d, file_path) ==
    IF file_path = NotAPath
    THEN Failure("Error processing " \o "None" \o ": " \o PathTypeError, <<>>)
    ELSE
    LET extension == Lower(Suffix(file_path))
    IN  IF ~IsSupported(extension)
        THEN Failure("Error: Unsupported file type - " \o extension \o ". Supported: "
                     \o Join(SupportedKeys, ", "), <<>>)
        ELSE IF ~Exists(f, file_path) THEN Failure("Error: File not found - " \o file_path, <<>>)
        ELSE IF ~IsFile(f, file_path) THEN Failure("Error: Path is not a file - " \o file_path, <<>>)
        ELSE IF extension = ".pdf" THEN ExtractPdf(f, d, file_path)
        ELSE IF extension = ".docx" THEN ExtractDocx(f, d, file_path)
        ELSE IF extension = ".pptx" THEN ExtractPptx(f, d, file_path)
        ELSE ExtractXlsx(f, d, file_path)

\* extract_from_file(file_path)
ExtractFromFile(f, d, file_path) ==
    IF file_path = NotAPath
    THEN Failure("Error processing " \o "None" \o ": " \o PathTypeError, <<>>)
    ELSE IF ~Exists(f, file_path) THEN Failure("Error: File not found - " \o file_path, <<>>)
    ELSE IF ~IsFile(f, file_path) THEN Failure("Error: Path is not a file - " \o file_path, <<>>)
    ELSE
    LET extension == Lower(Suffix(file_path))
    IN  IF ~IsSupported(extension)
        THEN Failure("Error: Unsupported file type - " \o extension \o ". Supported: "
                     \o Join(SupportedKeys, ", "), <<>>)
        ELSE IF extension = ".pdf" THEN ExtractPdf(f, d, file_path)
        ELSE IF extension = ".docx" THEN ExtractDocx(f, d, file_path)
        ELSE IF extension = ".pptx" THEN ExtractPptx(f, d, file_path)
        ELSE IF extension = ".xlsx" THEN ExtractXlsx(f, d, file_path)
        ELSE Failure("Error: Handler not implemented for " \o extension, <<>>)


(***************************************************************************)
(* The directory operations of DocumentExtractor.  Paths are the texts     *)
(* str(Path) gives: no trailing slash, no "./" in front.  The size and the *)
(* time stamps of a listing come from stat() and are not kept.             *)
(***************************************************************************)

\* whether q lies below the directory path, at any depth
IsUnder(q, path) == path = "." \/ StartsWith(q, path \o "/")

\* what path.rglob("*") / path.iterdir() yield
Children(f, path, recursive) ==
    IF recursive THEN {q \in DOMAIN f : IsUnder(q, path)}
    ELSE {q \in DOMAIN f : Parent(q) = path}

RECURSIVE SeqLess(_, _)
\* a < b for two lists of texts
SeqLess(a, b) ==
    IF Len(b) = 0 THEN FALSE
    ELSE IF Len(a) = 0 THEN TRUE
    ELSE IF a[1] = b[1] THEN SeqLess(Tail(a), Tail(b))
    ELSE StrLess(a[1], b[1])

\* Path.__lt__: the paths' parts are compared, one component after the other
PathLess(a, b) == SeqLess(Parts(a), Parts(b))

RECURSIVE Sorted(_)
\* sorted(files)
Sorted(files) ==
    IF files = {} THEN <<>>
    ELSE LET first == CHOOSE x \in files : \A y \in files \ {x} : PathLess(x, y)
         IN  <<first>> \o Sorted(files \ {first})

\* _find_supported_files walking the whole subtree whatever `recursive` is
FindSupportedFilesAnyDepth(f, path, recursive) ==
    Sorted({file_path \in Children(f, path, TRUE) :
               IsFile(f, file_path) /\ IsSupported(Lower(Suffix(file_path)))})

\* _find_supported_files(path, recursive)
FindSupportedFiles(f, path, recursive) ==
    Sorted({file_path \in Children(f, path, recursive) :
               IsFile(f, file_path) /\ IsSupported(Lower(Suffix(file_path)))})

\* the label of a discovered file: SUPPORTED_EXTENSIONS.get(suffix.lower(), default)
TypeOf(file_path, default) ==
    LET extension == Lower(Suffix(file_path))
    IN  IF IsSupported(extension) THEN SUPPORTED_EXTENSIONS[extension] ELSE default

RECURSIVE FileBlocks(_, _, _, _)
\* the loop of extract_from_directory over files[k..]: what it adds to results
FileBlocks(f, d, files, k) ==
    IF k > Len(files) THEN <<>>
    ELSE LET file_path == files[k]
             text == ExtractFromFile(f, d, file_path).value
         IN  <<"=== " \o Name(file_path) \o " ===",
               "Path: " \o file_path,
               "Type: " \o TypeOf(file_path, "Unknown"),
               "Content:",
               text,
               Repeat("=", 50),
               "">>
             \o FileBlocks(f, d, files, k + 1)

RECURSIVE ReadersOf(_, _, _, _)
\* the readers invoked by that loop
ReadersOf(f, d, files, k) ==
    IF k > Len(files) THEN <<>>
    ELSE ExtractFromFile(f, d, files[k]).readers \o ReadersOf(f, d, files, k + 1)

\* extract_from_directory giving up at the first file whose text is an error
ExtractFromDirectoryFailFast(f, d, directory_path, recursive) ==
    IF directory_path = NotAPath
    THEN Failure("Error processing directory " \o "None" \o ": " \o PathTypeError, <<>>)
    ELSE IF ~Exists(f, directory_path)
    THEN Failure("Error: Directory not found - " \o directory_path, <<>>)
    ELSE IF ~IsDir(f, directory_path)
    THEN Failure("Error: Path is not a directory - " \o directory_path, <<>>)
    ELSE
    LET files == FindSupportedFiles(f, directory_path, recursive)
        bad == {k \in 1..Len(files) : ExtractFromFile(f, d, files[k]).failed}
    IN  IF files = <<>> THEN Ok("No supported files found in " \o directory_path, <<>>)
        ELSE IF bad # {}
        THEN Failure(ExtractFromFile(f, d, files[CHOOSE k \in bad : \A j \in bad : k <= j]).value, <<>>)
        ELSE Ok(Join(FileBlocks(f, d, files, 1), "\n"), ReadersOf(f, d, files, 1))

\* extract_from_directory(directory_path, recursive)
ExtractFromDirectory(f, d, directory_path, recursive) ==
    IF directory_path = NotAPath
    THEN Failure("Error processing directory " \o "None" \o ": " \o PathTypeError, <<>>)
    ELSE IF ~Exists(f, directory_path)
    THEN Failure("Error: Directory not found - " \o directory_path, <<>>)
    ELSE IF ~IsDir(f, directory_path)
    THEN Failure("Error: Path is not a directory - " \o directory_path, <<>>)
    ELSE
    LET files == FindSupportedFiles(f, directory_path, recursive)
    IN  IF files = <<>> THEN Ok("No supported files found in " \o directory_path, <<>>)
        ELSE Ok(Join(FileBlocks(f, d, files, 1), "\n"), ReadersOf(f, d, files, 1))

\* list_supported_files(directory_path, recursive): a list of dicts
ListSupportedFiles(f, directory_path, recursive) ==
    IF directory_path = NotAPath
    THEN Failure(<<[error |-> "Error listing files: " \o PathTypeError]>>, <<>>)
    ELSE IF ~Exists(f, directory_path)
    THEN Failure(<<[error |-> "Directory not found - " \o directory_path]>>, <<>>)
    ELSE IF ~IsDir(f, directory_path)
    THEN Failure(<<[error |-> "Path is not a directory - " \o directory_path]>>, <<>>)
    ELSE
    LET files == FindSupportedFiles(f, directory_path, recursive)
    IN  Ok([k \in 1..Len(files) |->
               [name |-> Name(files[k]),
                path |-> files[k],
                type |-> TypeOf(files[k], "Unknown"),
                extension |-> Lower(Suffix(files[k]))]],
           <<>>)

\* get_file_info looking the suffix up as it is written
GetFileInfoCaseSensitive(f, file_path) ==
    IF file_path = NotAPath
    THEN Failure([error |-> "Error getting file info: " \o PathTypeError], <<>>)
    ELSE IF ~Exists(f, file_path) THEN Failure([error |-> "File not found - " \o file_path], <<>>)
    ELSE IF ~IsFile(f, file_path) THEN Failure([error |-> "Path is not a file - " \o file_path], <<>>)
    ELSE
    LET extension == Suffix(file_path)
    IN  Ok([name |-> Name(file_path),
            path |-> file_path,
            extension |-> extension,
            type |-> IF IsSupported(extension) THEN SUPPORTED_EXTENSIONS[extension] ELSE "Unsupported",
            supported |-> IsSupported(extension)],
           <<>>)

\* get_file_info(file_path): a dict
GetFileInfo(f, file_path) ==
    IF file_path = NotAPath
    THEN Failure([error |-> "Error getting file info: " \o PathTypeError], <<>>)
    ELSE IF ~Exists(f, file_path) THEN Failure([error |-> "File not found - " \o file_path], <<>>)
    ELSE IF ~IsFile(f, file_path) THEN Failure([error |-> "Path is not a file - " \o file_path], <<>>)
    ELSE
    LET extension == Lower(Suffix(file_path))
    IN  Ok([name |-> Name(file_path),
            path |-> file_path,
            extension |-> extension,
            type |-> TypeOf(file_path, "Unsupported"),
            supported |-> IsSupported(extension)],
           <<>>)

(***************************************************************************)
(* The state machine.  Every public operation is one action: it reads the  *)
(* file system, returns its result and leaves the file system it wrote.    *)
(***************************************************************************)

\* the flags set by the imports at the top of extractors.py and xlsx_writer.py
AllAvailable ==
    [DOCX_AVAILABLE |-> TRUE, PDF_AVAILABLE |-> TRUE, PPTX_AVAILABLE |-> TRUE, XLSX_AVAILABLE |-> TRUE]

NoneAvailable ==
    [DOCX_AVAILABLE |-> FALSE, PDF_AVAILABLE |-> FALSE, PPTX_AVAILABLE |-> FALSE, XLSX_AVAILABLE |-> FALSE]

NoCall == [op |-> "none"]

NoResult == [value |-> "", failed |-> FALSE, readers |-> <<>>]

NoFiles == [q \in {} |-> [kind |-> "dir"]]

NoPrev == [call |-> NoCall, result |-> NoResult, pre |-> NoFiles]

\* no keyword arguments
NoKwargs == [k \in {} |-> TRUE]

\* the state before any operation, on file system f with libraries d
Start(f, d) ==
    /\ fs = f
    /\ deps = d
    /\ call = NoCall
    /\ result = NoResult
    /\ pre = f
    /\ prev = NoPrev
    /\ nops = 0
    /\ tasks = <<>>

\* a writer operation returned r = [ret, fs] for the call c
Written(c, r) ==
    /\ fs' = r.fs
    /\ call' = c
    /\ result' = r.ret
    /\ pre' = fs
    /\ prev' = [call |-> call, result |-> result, pre |-> pre]
    /\ nops' = nops + 1
    /\ UNCHANGED <<deps, tasks>>

\* an operation that writes nothing returned ret for the call c
Answered(c, ret) ==
    /\ call' = c
    /\ result' = ret
    /\ pre' = fs
    /\ UNCHANGED <<fs, deps, prev, nops, tasks>>

\* a reader operation returned ret for the call c
Returned(c, ret) ==
    /\ call' = c
    /\ result' = ret
    /\ pre' = fs
    /\ prev' = [call |-> call, result |-> result, pre |-> pre]
    /\ nops' = nops + 1
    /\ UNCHANGED <<fs, deps, tasks>>

(***************************************************************************)
(* SpecAppend: append_to_workbook, again and again, on one workbook path.  *)
(***************************************************************************)

\* how many operations a run of the writer specifications makes
MaxOps == 2

\* how many items a list given to append_to_workbook holds at most
MaxAppendItems == 2

A == PyStr("a")

B == PyStr("b")

One == PyInt("1")

Book == "out/book.xlsx"

\* the rows a row list is made of: an empty row, one text, a number and a text
RowPool == {PyList(<<>>), PyList(<<A>>), PyList(<<One, B>>)}

\* the sequences over S of length n
RECURSIVE SeqsOfLen(_, _)
SeqsOfLen(S, n) ==
    IF n = 0 THEN {<<>>} ELSE {Append(q, x) : q \in SeqsOfLen(S, n - 1), x \in S}

\* the sequences over S of length at most n
SeqsUpTo(S, n) == UNION {SeqsOfLen(S, k) : k \in 0..n}

\* the row lists: every list of at most MaxAppendItems rows of RowPool
RowLists == {PyList(items) : items \in SeqsUpTo(RowPool, MaxAppendItems)}

\* a frame of two columns and one row, with the default index
SmallFrame == DataFrame(<<PyStr("x"), PyStr("y")>>, <<PyInt("0")>>, <<<<One, A>>>>)

\* the payloads given to append_to_workbook: the row lists, a list that mixes
\* a dict, a scalar and a row, a dict, a frame and a bare scalar
AppendPayloads ==
    RowLists \cup {PyList(<<PyDict(<<PyStr("k")>>, <<B>>), One, PyList(<<A, A>>)>>),
                   PyDict(<<PyStr("k"), PyStr("j")>>, <<A, One>>),
                   SmallFrame,
                   B}

\* a sheet with the given rows (sequences of values), rows[i] in row i
SheetOf(rows) == WriteRowsAt(NewSheet, rows, 1, 1)

\* a workbook on disk with the sheets T and, when withS, S, as an earlier
\* save left them
SeedWorkbook(withS) ==
    [sheetnames |-> IF withS THEN <<"T", "S">> ELSE <<"T">>,
     sheets |-> [n \in (IF withS THEN {"T", "S"} ELSE {"T"}) |->
                    IF n = "T" THEN SheetOf(<<<<PyStr("h")>>, <<PyStr("t")>>>>)
                    ELSE SheetOf(<<<<PyStr("p"), PyStr("q")>>, <<>>, <<PyStr("r")>>>>)]]

OutDir == [q \in {"out"} |-> [kind |-> "dir"]]

\* the file systems SpecAppend starts from: no directory, no file, a file that
\* is no workbook, a workbook without the sheet S, and one with it
AppendFileSystems ==
    {NoFiles,
     OutDir,
     Put(OutDir, Book, [kind |-> "file", raw |-> "not a zip"]),
     Put(OutDir, Book, [kind |-> "file", xlsx |-> SeedWorkbook(FALSE)]),
     Put(OutDir, Book, [kind |-> "file", xlsx |-> SeedWorkbook(TRUE)])}

InitAppend == \E f \in AppendFileSystems, d \in {AllAvailable, NoneAvailable} : Start(f, d)

\* append_to_workbook(Book, "S", data)
DoAppendToWorkbook ==
    /\ nops < MaxOps
    /\ \E data \in AppendPayloads :
          Written([op |-> "append_to_workbook", file_path |-> Book, sheet_name |-> "S",
                   data |-> data, kwargs |-> NoKwargs],
                  AppendToWorkbook(fs, deps, Book, "S", data, NoKwargs))

NextAppend == DoAppendToWorkbook

SpecAppend == InitAppend /\ [][NextAppend]_vars


\* the sheet of a workbook file
SheetAt(f, file_path, sheet_name) == f[file_path].xlsx.sheets[sheet_name]

\* whether f holds a workbook at file_path that has the sheet
SheetExists(f, file_path, sheet_name) ==
    /\ IsFile(f, file_path)
    /\ "xlsx" \in DOMAIN f[file_path]
    /\ HasSheet(f[file_path].xlsx, sheet_name)

\* ws.cell(r, c).value of a sheet read from disk: None where no cell is
CellValue(ws, r, c) == IF <<r, c>> \in DOMAIN ws.cells THEN ws.cells[<<r, c>>] ELSE None

\* a list all of whose items are lists (a row list)
IsRowList(data) == IsList(data) /\ \A i \in 1..Len(data.items) : IsList(data.items[i])

\* the last two operations were successful appends of row lists to the same
\* sheet of the same file, and the sheet did not exist before the first
TwoAppendsFromNothing ==
    /\ call.op = "append_to_workbook" /\ ~result.failed
    /\ prev.call.op = "append_to_workbook" /\ ~prev.result.failed
    /\ prev.call.file_path = call.file_path
    /\ prev.call.sheet_name = call.sheet_name
    /\ IsRowList(prev.call.data) /\ IsRowList(call.data)
    /\ ~SheetExists(prev.pre, call.file_path, call.sheet_name)

\* C2: append_to_workbook(R1) then append_to_workbook(R2), from a destination
\* without the target sheet, leaves a sheet whose rows 1..len(R1) are R1 and
\* whose rows len(R1)+1..len(R1)+len(R2) are R2 (values by their str()), with
\* no gap row and nothing after them.
C2_AppendTwiceKeepsRows ==
    TwoAppendsFromNothing =>
        LET ws == SheetAt(fs, call.file_path, call.sheet_name)
            R1 == prev.call.data.items
            R2 == call.data.items
        IN  /\ \A i \in 1..Len(R1) : RowValues(ws, i) = StrAll(R1[i].items)
            /\ \A j \in 1..Len(R2) : RowValues(ws, Len(R1) + j) = StrAll(R2[j].items)
            /\ \A rc \in DOMAIN ws.cells : rc[1] <= Len(R1) + Len(R2)

\* the last operation was a successful append to a workbook that existed
AppendedToExisting ==
    /\ call.op = "append_to_workbook" /\ ~result.failed
    /\ IsFile(pre, call.file_path) /\ "xlsx" \in DOMAIN pre[call.file_path]

\* C3: append_to_workbook on an existing workbook changes no cell value in
\* rows 1..next_row-1 of the target sheet and no cell of any other sheet, and
\* the sheets that were there are still there, in the same order.
C3_AppendTouchesNothingAbove ==
    AppendedToExisting =>
        LET old == pre[call.file_path].xlsx
            new == fs[call.file_path].xlsx
            next_row == NextRow(old, call.sheet_name)
        IN  /\ SubSeq(new.sheetnames, 1, Len(old.sheetnames)) = old.sheetnames
            /\ \A n \in DOMAIN old.sheets :
                  IF n # call.sheet_name THEN new.sheets[n] = old.sheets[n]
                  ELSE \A rc \in DOMAIN old.sheets[n].cells \cup DOMAIN new.sheets[n].cells :
                          rc[1] < next_row =>
                              CellValue(new.sheets[n], rc[1], rc[2]) = CellValue(old.sheets[n], rc[1], rc[2])

\* C3's case: rows were appended below existing rows of a sheet, in a workbook
\* that has another sheet too
C3_Witness ==
    /\ AppendedToExisting
    /\ HasSheet(pre[call.file_path].xlsx, call.sheet_name)
    /\ Len(pre[call.file_path].xlsx.sheetnames) > 1
    /\ fs[call.file_path].xlsx # pre[call.file_path].xlsx
    /\ prev.call.op = "append_to_workbook"


\* the highest row of a sheet that holds a cell, 0 when none does
HighestPopulatedRow(ws) == Max({0} \cup {rc[1] : rc \in DOMAIN ws.cells})

\* C18: append_to_workbook starts writing at (highest populated row) + 1 of a
\* sheet that was in the file, be there a populated cell or not (row 1 on a
\* sheet without one), and at row 1 of a sheet it creates: the first row of
\* a row list lands there.
C18_CursorAfterHighestPopulatedRow ==
    (/\ call.op = "append_to_workbook" /\ ~result.failed
     /\ IsRowList(call.data) /\ Len(call.data.items) > 0) =>
        LET old == LoadOrNew(pre, call.file_path)
            cursor == IF HasSheet(old, call.sheet_name)
                      THEN HighestPopulatedRow(old.sheets[call.sheet_name]) + 1
                      ELSE 1
        IN  RowValues(SheetAt(fs, call.file_path, call.sheet_name), cursor) = StrAll(call.data.items[1].items)


(***************************************************************************)
(* SpecCreate: create_workbook on one destination.                         *)
(***************************************************************************)

\* how many create_workbook calls a run of SpecCreate makes
MaxCreates == 1

\* how many items a list given to create_workbook holds at most
MaxCreateItems == 2

\* the items of a list payload: field lists, field-name maps and a scalar
ItemPool ==
    {PyList(<<A>>), PyList(<<One, B>>), PyList(<<>>),
     PyDict(<<PyStr("k")>>, <<A>>), PyDict(<<PyStr("k"), PyStr("j")>>, <<B, One>>),
     One}

\* the payloads of one sheet: the lists of at most MaxCreateItems items, a
\* scalar map, a frame and a bare scalar
SheetPayloads ==
    {PyList(items) : items \in SeqsUpTo(ItemPool, MaxCreateItems)}
    \cup {PyDict(<<PyStr("Name"), PyStr("Age")>>, <<A, One>>), SmallFrame, B}

\* the sheet maps given to create_workbook: one sheet S with each payload,
\* no sheet at all, and two sheets
SheetMaps ==
    {PyDict(<<"S">>, <<payload>>) : payload \in SheetPayloads}
    \cup {PyDict(<<>>, <<>>),
          PyDict(<<"S", "T">>, <<PyDict(<<PyStr("Name")>>, <<A>>), PyList(<<PyList(<<A, B>>)>>)>>),
          PyDict(<<"Data", "data">>, <<PyList(<<PyList(<<A>>)>>), PyList(<<PyList(<<B>>)>>)>>),
          PyDict(<<"S", "a/b">>, <<PyList(<<PyList(<<A>>)>>), PyList(<<PyList(<<B>>)>>)>>)}

\* the options given to create_workbook: none, and the formatting flag either way
CreateOptions == {NoKwargs, [k \in {"apply_formatting"} |-> TRUE], [k \in {"apply_formatting"} |-> FALSE]}

\* the file systems SpecCreate starts from: nothing, the directory there, a
\* file where the directory should be, a directory where the workbook should
\* be, and an earlier workbook at the destination
CreateFileSystems ==
    {NoFiles,
     OutDir,
     [q \in {"out"} |-> [kind |-> "file", raw |-> "x"]],
     Put(OutDir, Book, [kind |-> "dir"]),
     Put(OutDir, Book, [kind |-> "file", xlsx |-> SeedWorkbook(TRUE)])}

InitCreate == \E f \in CreateFileSystems, d \in {AllAvailable, NoneAvailable} : Start(f, d)

\* create_workbook(data, Book, **kwargs)
DoCreateWorkbook ==
    /\ nops < MaxCreates
    /\ \E data \in SheetMaps, kwargs \in CreateOptions :
          Written([op |-> "create_workbook", file_path |-> Book, data |-> data, kwargs |-> kwargs],
                  CreateWorkbook(fs, deps, data, Book, kwargs))

NextCreate == DoCreateWorkbook

SpecCreate == InitCreate /\ [][NextCreate]_vars

\* a non-empty list all of whose items are dicts
IsMapList(data) ==
    IsList(data) /\ Len(data.items) > 0 /\ \A i \in 1..Len(data.items) : IsDict(data.items[i])

\* C4: create_workbook writes one row per item of a list payload and loses
\* none: n field lists fill rows 1..n in input order; n field-name maps give
\* the first map's keys in row 1 and the values of map i in row i+1.
C4_CreateKeepsEveryRow ==
    (call.op = "create_workbook" /\ ~result.failed) =>
        \A k \in 1..Len(call.data.keys) :
            LET payload == call.data.vals[k]
                ws == SheetAt(fs, call.file_path, call.data.keys[k])
            IN  /\ IsRowList(payload) =>
                      \A i \in 1..Len(payload.items) : RowValues(ws, i) = StrAll(payload.items[i].items)
                /\ IsMapList(payload) =>
                      /\ RowValues(ws, 1) = StrAll(payload.items[1].keys)
                      /\ \A i \in 1..Len(payload.items) :
                            RowValues(ws, i + 1) = StrAll(payload.items[i].vals)


(***************************************************************************)
(* SpecDocx: create_document on a destination, and extract_from_file on    *)
(* what it wrote.                                                           *)
(***************************************************************************)

\* how many operations a run of SpecDocx makes
MaxDocOps == 2

\* how many lines a generated content has
MaxLines == 2

\* the markup of the round trip: a === heading, two dash items, and a line
\* with a bold run and a plain run
RoundTripMarkup == "=== Title ===\n- item one\n- item two\n**bold** plain"

\* the lines contents are made of: one per rule of _add_content
LinePool == {"=== Title ===", "- item one", "**bold** plain", "plain **bold**", "1. one", ""}

Contents == {Join(ls, "\n") : ls \in SeqsUpTo(LinePool, MaxLines)} \cup {RoundTripMarkup}

Titles == {None, PyStr("Report")}

\* a destination whose directory exists, and one whose directory is missing
Doc == "out/doc.docx"

Nowhere == "missing/doc.docx"

DocxFileSystems == {OutDir, Put(OutDir, Doc, [kind |-> "file", raw |-> "not a zip"])}

InitDocx == \E f \in DocxFileSystems, d \in {AllAvailable, NoneAvailable} : Start(f, d)

\* create_document(content, file_path, title)
DoCreateDocument ==
    /\ nops < MaxDocOps
    /\ \E content \in Contents, file_path \in {Doc, Nowhere}, title \in Titles :
          Written([op |-> "create_document", content |-> content, file_path |-> file_path,
                   title |-> title, style_config |-> None],
                  CreateDocument(fs, content, file_path, title, None))

\* extract_from_file(file_path)
DoExtractDocument ==
    /\ nops < MaxDocOps
    /\ \E file_path \in {Doc, Nowhere} :
          Returned([op |-> "extract_from_file", file_path |-> file_path],
                   ExtractFromFile(fs, deps, file_path))

NextDocx == DoCreateDocument \/ DoExtractDocument

SpecDocx == InitDocx /\ [][NextDocx]_vars

\* the last two operations wrote the round trip's markup to a document and
\* then extracted that document, both without a failure
RoundTripDone ==
    /\ call.op = "extract_from_file"
    /\ prev.call.op = "create_document"
    /\ prev.call.content = RoundTripMarkup
    /\ prev.call.file_path = call.file_path
    /\ ~prev.result.failed
    /\ ~result.failed

\* C1: the text extracted from a document written from the round trip's markup
\* contains "Title", "item one", "item two" and the contiguous "bold plain".
C1_RoundTripKeepsText ==
    RoundTripDone =>
        /\ Contains(result.value, "Title")
        /\ Contains(result.value, "item one")
        /\ Contains(result.value, "item two")
        /\ Contains(result.value, "bold plain")


(***************************************************************************)
(* SpecFs: the reading operations of DocumentExtractor on a directory      *)
(* tree below Root.  A run serves one request: the operations write        *)
(* nothing, so a later request would find the tree the first one found.    *)
(***************************************************************************)

\* how many entries the tree below Root holds at most
MaxEntries == 4

Root == "r"

GoodDocx == [kind |-> "file", docx |-> BuildDocument("Hello\n\nWorld", None, None)]

Corrupt == [kind |-> "file", raw |-> "not a zip"]

GoodPdf == [kind |-> "file", pdf |-> <<"Page one", " ">>]

GoodPptx == [kind |-> "file", pptx |-> <<<<[has_text |-> TRUE, text |-> "Slide text"]>>>>]

GoodXlsx == [kind |-> "file", xlsx |-> SeedWorkbook(TRUE)]

Dir == [kind |-> "dir"]

\* what the tree may hold: good and corrupt containers, an upper-case
\* extension, files of other types, a directory named like a workbook, and
\* two sibling directories the name of one of which is the start of the other's
Candidates ==
    {<<"r/a.docx", GoodDocx>>, <<"r/a.docx", Corrupt>>, <<"r/b.txt", Corrupt>>,
     <<"r/c.PDF", GoodPdf>>, <<"r/c.PDF", Corrupt>>, <<"r/d.xlsx", Dir>>, <<"r/.pdf", Corrupt>>,
     <<"r/s", Dir>>, <<"r/s/e.pptx", GoodPptx>>, <<"r/s/n.md", Corrupt>>,
     <<"r/s.x", Dir>>, <<"r/s.x/f.xlsx", GoodXlsx>>}

\* whether a set of candidates is a tree: one entry per path, every entry
\* inside a directory of the tree
IsTree(S) ==
    /\ \A x \in S, y \in S : x[1] = y[1] => x = y
    /\ \A x \in S : Parent(x[1]) = Root \/ <<Parent(x[1]), Dir>> \in S

TreeOf(S) ==
    [q \in {Root} \cup {x[1] : x \in S} |->
        IF q = Root THEN Dir ELSE (CHOOSE x \in S : x[1] = q)[2]]

Trees == {TreeOf(S) : S \in {T \in SUBSET Candidates : Cardinality(T) <= MaxEntries /\ IsTree(T)}}

\* the paths given to the operations on one file
FileArguments ==
    {x[1] : x \in Candidates} \cup {Root, "r/missing.docx", "r/missing.txt", NotAPath}

\* the paths given to the operations on a directory
DirectoryArguments == {Root, "r/s", "r/b.txt", "nowhere", NotAPath}

InitFs == \E f \in Trees, d \in {AllAvailable, NoneAvailable} : Start(f, d)

\* extract_from_file(file_path)
DoExtractFromFile ==
    /\ call = NoCall
    /\ \E file_path \in FileArguments :
           Answered([op |-> "extract_from_file", file_path |-> file_path],
                    ExtractFromFile(fs, deps, file_path))

\* extract_from_directory(directory_path, recursive)
DoExtractFromDirectory ==
    /\ call = NoCall
    /\ \E directory_path \in DirectoryArguments, recursive \in BOOLEAN :
           Answered([op |-> "extract_from_directory", directory_path |-> directory_path,
                     recursive |-> recursive],
                    ExtractFromDirectory(fs, deps, directory_path, recursive))

\* list_supported_files(directory_path, recursive)
DoListSupportedFiles ==
    /\ call = NoCall
    /\ \E directory_path \in DirectoryArguments, recursive \in BOOLEAN :
           Answered([op |-> "list_supported_files", directory_path |-> directory_path,
                     recursive |-> recursive],
                    ListSupportedFiles(fs, directory_path, recursive))

\* get_file_info(file_path)
DoGetFileInfo ==
    /\ call = NoCall
    /\ \E file_path \in FileArguments :
           Answered([op |-> "get_file_info", file_path |-> file_path], GetFileInfo(fs, file_path))

NextFs == DoExtractFromFile \/ DoExtractFromDirectory \/ DoListSupportedFiles \/ DoGetFileInfo

SpecFs == InitFs /\ [][NextFs]_vars

\* the four extensions the specification names
FourExtensions == {".pdf", ".docx", ".pptx", ".xlsx"}

\* the name a reader's error text gives its format
FormatName(extension) ==
    CASE extension = ".pdf" -> "PDF"
      [] extension = ".docx" -> "DOCX"
      [] extension = ".pptx" -> "PPTX"
      [] extension = ".xlsx" -> "XLSX"

\* extract_from_file was given a file of a supported type that is no
\* container of its format, with the format's library installed: the reader's
\* decoding raises
DecodeFails(f, d, file_path) ==
    /\ file_path # NotAPath
    /\ IsFile(f, file_path)
    /\ Lower(Suffix(file_path)) \in FourExtensions
    /\ "raw" \in DOMAIN f[file_path]
    /\ d = AllAvailable

C6_ValidationOrder ==
    (call.op = "extract_from_file" /\ call.file_path # NotAPath) =>
        LET file_path == call.file_path
        IN  /\ ~Exists(fs, file_path) =>
                  /\ result.failed
                  /\ Contains(result.value, "not found")
                  /\ result.readers = <<>>
            /\ (Exists(fs, file_path) /\ ~IsFile(fs, file_path)) =>
                  /\ result.failed
                  /\ Contains(result.value, "not a file")
                  /\ result.readers = <<>>
            /\ (IsFile(fs, file_path) /\ Lower(Suffix(file_path)) \notin FourExtensions) =>
                  /\ result.failed
                  /\ Contains(result.value, "Unsupported file type")
                  /\ \A e \in FourExtensions : Contains(result.value, e)
                  /\ result.readers = <<>>

\* extract_from_file was given a directory whose name ends in a supported
\* extension
C6_Witness ==
    /\ call.op = "extract_from_file"
    /\ call.file_path = "r/d.xlsx"
    /\ IsDir(fs, "r/d.xlsx")
    /\ result.failed


\* C7: a failure result of a public operation is a text that begins with
\* "Error:" or "Hata:", and no success result begins with either.
C7_PrefixTellsFailure ==
    call.op # "none" =>
        (result.failed <=> (StartsWith(result.value, "Error:") \/ StartsWith(result.value, "Hata:")))

\* the regular files of a supported type that a discovery below root is to
\* find
Wanted(f, root, recursive) ==
    {q \in DOMAIN f :
        /\ f[q].kind = "file"
        /\ Lower(Suffix(q)) \in FourExtensions
        /\ IF recursive THEN StartsWith(q, root \o "/") ELSE Parent(q) = root}

\* the paths of a listing, in its order
ListedPaths(listing) == [k \in 1..Len(listing) |-> listing[k].path]

\* a directory operation was given a directory and returned
Discovered(op) ==
    /\ call.op = op
    /\ call.directory_path # NotAPath
    /\ IsDir(fs, call.directory_path)

\* C8 (as the code has it): list_supported_files and the discovery behind
\* extract_from_directory return exactly the regular files of a supported
\* lowercased extension, directly in the root when recursive is false and in
\* the whole subtree when it is true, ordered by path compared component by
\* component.
C8_DiscoveryByComponents ==
    /\ Discovered("list_supported_files") =>
          LET paths == ListedPaths(result.value)
              wanted == Wanted(fs, call.directory_path, call.recursive)
          IN  /\ ~result.failed
              /\ {paths[k] : k \in 1..Len(paths)} = wanted
              /\ Len(paths) = Cardinality(wanted)
              /\ \A i \in 1..Len(paths), j \in 1..Len(paths) : i < j => PathLess(paths[i], paths[j])
    /\ Discovered("extract_from_directory") =>
          LET wanted == Wanted(fs, call.directory_path, call.recursive)
              At(q) == Find(result.value, "Path: " \o q \o "\n")
          IN  /\ ~result.failed
              /\ \A q \in DOMAIN fs : At(q) > 0 <=> q \in wanted
              /\ \A a \in wanted, b \in wanted : PathLess(a, b) => At(a) < At(b)

\* a recursive listing found files in the root and below it, and left a file
\* of another type out
C8_Witness ==
    /\ Discovered("list_supported_files")
    /\ call.recursive
    /\ \E k \in 1..Len(result.value) : Parent(result.value[k].path) = call.directory_path
    /\ \E k \in 1..Len(result.value) : Parent(result.value[k].path) # call.directory_path
    /\ \E q \in DOMAIN fs : IsFile(fs, q) /\ Lower(Suffix(q)) \notin FourExtensions

\* C8 (as stated): the files discovered are sorted lexicographically by path,
\* the path being the text of the listing's "path".
C8_SortedByPathText ==
    Discovered("list_supported_files") =>
        LET paths == ListedPaths(result.value)
        IN  \A i \in 1..Len(paths), j \in 1..Len(paths) : i < j => StrLess(paths[i], paths[j])

\* the k-th of a set of paths in the order of discovery
Nth(S, k) == CHOOSE q \in S : Cardinality({x \in S : PathLess(x, q)}) = k - 1

\* the block of one discovered file: banner, Path line, Type line,
\* "Content:", the file's extraction text and a line of 50 "="
Block(q) ==
    "=== " \o Name(q) \o " ===\n"
    \o "Path: " \o q \o "\n"
    \o "Type: " \o SUPPORTED_EXTENSIONS[Lower(Suffix(q))] \o "\n"
    \o "Content:\n"
    \o ExtractFromFile(fs, deps, q).value \o "\n"
    \o "==================================================\n"

\* C9: the output of extract_from_directory is one block per discovered file,
\* in discovery order, whichever of the files yield an error text, and it
\* names no file of an unsupported type.
C9_OneBlockPerFile ==
    (Discovered("extract_from_directory")
     /\ Wanted(fs, call.directory_path, call.recursive) # {}) =>
        LET wanted == Wanted(fs, call.directory_path, call.recursive)
            n == Cardinality(wanted)
        IN  /\ ~result.failed
            /\ result.value = Join([k \in 1..n |-> Block(Nth(wanted, k))], "\n")
            /\ \A q \in DOMAIN fs :
                  (IsFile(fs, q) /\ Lower(Suffix(q)) \notin FourExtensions) =>
                      ~Contains(result.value, Name(q))

\* extract_from_directory went over a file that cannot be decoded and one
\* that can, next to a file of another type
C9_Witness ==
    /\ Discovered("extract_from_directory")
    /\ LET wanted == Wanted(fs, call.directory_path, call.recursive)
       IN  /\ \E q \in wanted : DecodeFails(fs, deps, q)
           /\ \E q \in wanted : ~ExtractFromFile(fs, deps, q).failed
    /\ IsFile(fs, "r/b.txt")

\* C10: an extension is supported exactly when, lowercased, it is one of
\* .pdf, .docx, .pptx, .xlsx; each of the four has a non-empty label; for any
\* other extension extract_from_file rejects the file, the listing skips it
\* and get_file_info reports supported = false.
C10_RegistryIsClosed ==
    /\ DOMAIN SUPPORTED_EXTENSIONS = FourExtensions
    /\ \A e \in FourExtensions : SUPPORTED_EXTENSIONS[e] # ""
    /\ (call.op = "get_file_info" /\ ~result.failed) =>
          LET e == Lower(Suffix(call.file_path))
          IN  /\ result.value.supported <=> e \in FourExtensions
              /\ e \in FourExtensions => result.value.type \notin {"", "Unsupported"}
              /\ e \notin FourExtensions => result.value.type = "Unsupported"
    /\ (call.op = "extract_from_file" /\ call.file_path # NotAPath /\ IsFile(fs, call.file_path)) =>
          (StartsWith(result.value, "Error: Unsupported file type")
             <=> Lower(Suffix(call.file_path)) \notin FourExtensions)
    /\ Discovered("list_supported_files") =>
          \A k \in 1..Len(result.value) :
              /\ result.value[k].extension \in FourExtensions
              /\ result.value[k].type \notin {"", "Unknown"}

\* get_file_info answered for a file whose extension is written in capitals
C10_Witness ==
    /\ call.op = "get_file_info"
    /\ call.file_path = "r/c.PDF"
    /\ ~result.failed
    /\ result.value.supported

\* C11: create_workbook on a sheet map with n >= 1 entries saves a workbook
\* with exactly n sheets, named by the map's keys in the map's order, the
\* names pairwise distinct, each sheet holding what its own payload gives.
C11_OneSheetPerKey ==
    (call.op = "create_workbook" /\ ~result.failed /\ Len(call.data.keys) >= 1) =>
        LET wb == fs[call.file_path].xlsx
            n == Len(call.data.keys)
        IN  /\ wb.sheetnames = call.data.keys
            /\ \A i \in 1..n, j \in 1..n : i # j => wb.sheetnames[i] # wb.sheetnames[j]
            /\ \A k \in 1..n :
                  wb.sheets[call.data.keys[k]]
                     = SavedSheet(WriteSheetData(NewSheet, call.data.vals[k], call.kwargs))

\* C13: apply_formatting defaults to true in create_workbook: a call that
\* leaves the flag out saves, on every sheet and for every payload kind, the
\* workbook (cells, styled row 1, column widths, borders) that the same call
\* with apply_formatting=True saves.
C13_FormattingDefaultsToTrue ==
    (call.op = "create_workbook" /\ ~result.failed /\ "apply_formatting" \notin DOMAIN call.kwargs) =>
        LET flagged == CreateWorkbook(pre, deps, call.data, call.file_path,
                                      [k \in {"apply_formatting"} |-> TRUE])
        IN  fs[call.file_path].xlsx = flagged.fs[call.file_path].xlsx

\* ---------------------------------------------------------------------
\* SpecReport: create_report_workbook on small reports

\* how many reports one run writes
MaxReports == 1

\* the readings of the clock
Clock == {"2025-01-01 10:00:00", "2025-01-01 10:00:01"}

\* the data sections of a report: none, a list, a map under the name
\* Summary followed by a list (as in the repository's report test), a
\* frame with metadata, a bare frame, a bare text, and a name no sheet may
\* have
ReportSections ==
    {PyDict(<<>>, <<>>),
     PyDict(<<"Details">>, <<PyList(<<PyList(<<A, B>>)>>)>>),
     PyDict(<<"Summary", "Details">>,
            <<PyDict(<<PyStr("Total")>>, <<One>>), PyList(<<PyList(<<A, B>>), PyList(<<B, One>>)>>)>>),
     PyDict(<<"Frame">>, <<PyDict(<<PyStr("dataframe")>>, <<SmallFrame>>)>>),
     PyDict(<<"Bare">>, <<SmallFrame>>),
     PyDict(<<"Note">>, <<B>>),
     PyDict(<<"a/b">>, <<PyList(<<PyList(<<A>>)>>)>>)}

\* the reports: each part there or not
Reports ==
    {[k \in has |-> CASE k = "title" -> PyStr("Monthly")
                      [] k = "description" -> PyStr("Sales")
                      [] OTHER -> sections] :
        has \in {{"title", "description", "data"}, {"data"}, {"title", "data"}},
        sections \in ReportSections}
    \cup {[k \in {"title"} |-> PyStr("Monthly")]}

InitReport == \E f \in CreateFileSystems, d \in {AllAvailable, NoneAvailable} : Start(f, d)

\* create_report_workbook(report_data, Book)
DoCreateReportWorkbook ==
    /\ nops < MaxReports
    /\ \E report_data \in Reports, now \in Clock :
          Written([op |-> "create_report_workbook", file_path |-> Book, report_data |-> report_data, now |-> now],
                  CreateReportWorkbook(fs, deps, report_data, Book, now))

NextReport == DoCreateReportWorkbook

SpecReport == InitReport /\ [][NextReport]_vars

\* C12: create_report_workbook saves a workbook whose first sheet is Summary
\* (A1 the title, A2 the generation time, A3 the description) followed by one
\* sheet per key of the report's data, each named exactly by its key: 1 + the
\* number of keys sheets, the names pairwise distinct.
C12_SummaryThenOneSheetPerKey ==
    (call.op = "create_report_workbook" /\ ~result.failed) =>
        LET wb == fs[call.file_path].xlsx
            keys == Get(call.report_data, "data", PyDict(<<>>, <<>>)).keys
            n == Len(wb.sheetnames)
            summary == wb.sheets[wb.sheetnames[1]]
        IN  /\ wb.sheetnames = <<"Summary">> \o keys
            /\ n = 1 + Len(keys)
            /\ \A i \in 1..n, j \in 1..n : i # j => wb.sheetnames[i] # wb.sheetnames[j]
            /\ summary.cells[<<1, 1>>] = Get(call.report_data, "title", PyStr("Report"))
            /\ summary.cells[<<2, 1>>] = PyStr("Generated: " \o call.now)
            /\ summary.cells[<<3, 1>>] = Get(call.report_data, "description", PyStr(""))

\* ---------------------------------------------------------------------
\* SpecPair: create_workbook called on two destinations

\* how many workbooks one run creates
MaxPairOps == 2

\* the second destination
Copy == "out/copy.xlsx"

\* the sheet maps given in SpecPair: a map of each payload kind, two sheets
\* of different kinds, names that differ in case only, and no sheet
PairMaps ==
    {PyDict(<<"S">>, <<PyDict(<<PyStr("Name"), PyStr("Age")>>, <<A, One>>)>>),
     PyDict(<<"S">>, <<PyList(<<PyDict(<<PyStr("k"), PyStr("j")>>, <<B, One>>), PyList(<<One, B>>)>>)>>),
     PyDict(<<"S", "T">>, <<SmallFrame, PyList(<<PyList(<<A, B>>)>>)>>),
     PyDict(<<"Data", "data">>, <<PyList(<<PyList(<<A>>)>>), B>>),
     PyDict(<<>>, <<>>)}

\* the options given in SpecPair
PairOptions == {NoKwargs, [k \in {"apply_formatting"} |-> TRUE]}

\* the file systems SpecPair starts from: nothing, and an earlier workbook
\* at the one destination or the other
PairFileSystems ==
    {NoFiles,
     Put(OutDir, Book, [kind |-> "file", xlsx |-> SeedWorkbook(TRUE)]),
     Put(OutDir, Copy, [kind |-> "file", xlsx |-> SeedWorkbook(TRUE)])}

InitPair == \E f \in PairFileSystems : Start(f, AllAvailable)

\* create_workbook(data, file_path, **kwargs) on one of the two destinations
DoCreateWorkbookAt ==
    /\ nops < MaxPairOps
    /\ \E data \in PairMaps, kwargs \in PairOptions, file_path \in {Book, Copy} :
          Written([op |-> "create_workbook", file_path |-> file_path, data |-> data, kwargs |-> kwargs],
                  CreateWorkbook(fs, deps, data, file_path, kwargs))

NextPair == DoCreateWorkbookAt

SpecPair == InitPair /\ [][NextPair]_vars

\* two calls in a row that succeeded, with the same sheet map and the same
\* options, on different destinations
SameInputTwice ==
    /\ call.op = "create_workbook" /\ prev.call.op = "create_workbook"
    /\ ~result.failed /\ ~prev.result.failed
    /\ call.data = prev.call.data /\ call.kwargs = prev.call.kwargs
    /\ call.file_path # prev.call.file_path

\* C14: create_workbook is deterministic in its input: the same sheet map and
\* options given for two different destinations leave two workbooks with the
\* same sheet names in the same order and the same value in every cell of
\* every sheet (hence the same column order).
C14_SameInputSameWorkbook ==
    SameInputTwice =>
        LET first == fs[prev.call.file_path].xlsx
            second == fs[call.file_path].xlsx
        IN  /\ first.sheetnames = second.sheetnames
            /\ \A i \in 1..Len(first.sheetnames) :
                  first.sheets[first.sheetnames[i]].cells = second.sheets[second.sheetnames[i]].cells

\* the case of C14 with two sheets of which one is a frame, the second call
\* replacing a workbook that was at its destination
C14_Witness ==
    /\ SameInputTwice
    /\ Len(call.data.keys) = 2
    /\ IsFrame(call.data.vals[1])
    /\ IsFile(pre, call.file_path)
    /\ fs[call.file_path].xlsx.sheetnames = <<"S", "T">>

\* ---------------------------------------------------------------------
\* SpecRace: invocations of append_to_workbook on the same file and sheet
\* that run at once (in processes of their own; the method holds no lock and
\* nothing else orders them).  An invocation takes two steps: it loads the
\* workbook, finds next_row and writes its rows into the loaded workbook;
\* later it saves that workbook over the file.

\* how many invocations run at once
MaxWriters == 2

\* the row lists the invocations append
RacePayloads ==
    {PyList(<<PyList(<<A>>)>>),
     PyList(<<PyList(<<One, B>>), PyList(<<B>>)>>),
     PyList(<<PyList(<<A, A>>), PyList(<<>>)>>)}

\* the file systems SpecRace starts from: no workbook yet, a workbook
\* without the sheet, a workbook with it
RaceFileSystems ==
    {OutDir,
     Put(OutDir, Book, [kind |-> "file", xlsx |-> SeedWorkbook(FALSE)]),
     Put(OutDir, Book, [kind |-> "file", xlsx |-> SeedWorkbook(TRUE)])}

InitRace ==
    /\ fs \in RaceFileSystems
    /\ deps = AllAvailable
    /\ call = NoCall
    /\ result = NoResult
    /\ pre = fs
    /\ prev = NoPrev
    /\ nops = 0
    /\ tasks = [i \in 1..MaxWriters |-> [pc |-> "idle"]]

\* invocation i runs from its start to the last write into its workbook:
\* base is the workbook as loaded, wb the workbook with the rows written,
\* seen the number of saves made before it loaded
LoadAndWrite(i) ==
    /\ tasks[i].pc = "idle"
    /\ \E data \in RacePayloads :
          tasks' = [tasks EXCEPT ![i] =
                       [pc |-> "written", data |-> data, seen |-> nops,
                        base |-> LoadOrNew(fs, Book),
                        wb |-> Appended(LoadOrNew(fs, Book), "S", data, NoKwargs)]]
    /\ UNCHANGED <<fs, deps, call, result, pre, prev, nops>>

\* a variant of the save that reads the file again and adds the rows to
\* what it finds there
SaveMerging(f, task) ==
    Put(f, Book, [kind |-> "file",
                  xlsx |-> SavedWorkbook(Appended(LoadOrNew(f, Book), "S", task.data, NoKwargs))])

\* wb.save(file_path) of an invocation: its workbook replaces the file,
\* whatever the file holds by now
Save(f, task) == Put(f, Book, [kind |-> "file", xlsx |-> SavedWorkbook(task.wb)])

\* invocation i saves and returns
SaveAndReturn(i) ==
    /\ tasks[i].pc = "written"
    /\ fs' = Save(fs, tasks[i])
    /\ tasks' = [tasks EXCEPT ![i].pc = "done"]
    /\ call' = [op |-> "append_to_workbook", file_path |-> Book, sheet_name |-> "S",
                data |-> tasks[i].data, kwargs |-> NoKwargs, task |-> i]
    /\ result' = Ok("Data appended to " \o Book \o ", sheet 'S'", <<>>)
    /\ pre' = fs
    /\ prev' = [call |-> call, result |-> result, pre |-> pre]
    /\ nops' = nops + 1
    /\ UNCHANGED deps

NextRace == \E i \in 1..MaxWriters : LoadAndWrite(i) \/ SaveAndReturn(i)

SpecRace == InitRace /\ [][NextRace]_vars

\* the cells of sheet S of a workbook, none when it has no such sheet
CellsOfS(wb) == IF HasSheet(wb, "S") THEN wb.sheets["S"].cells ELSE NoCells

\* the cells an invocation wrote: those of its saved workbook that the
\* workbook it loaded did not have
OwnCells(task) == DOMAIN CellsOfS(SavedWorkbook(task.wb)) \ DOMAIN CellsOfS(task.base)

\* the rows of an invocation are in the cells given
Present(task, cells) ==
    \A rc \in OwnCells(task) : rc \in DOMAIN cells /\ cells[rc] = CellsOfS(task.wb)[rc]

\* the last two saves were made by invocations that had both loaded before
\* either saved
BothLoadedFirst ==
    /\ call.op = "append_to_workbook" /\ prev.call.op = "append_to_workbook"
    /\ tasks[call.task].seen < nops - 1

\* the last two saves were made by invocations of which the second loaded
\* after the first had saved
OneAfterTheOther ==
    /\ call.op = "append_to_workbook" /\ prev.call.op = "append_to_workbook"
    /\ tasks[call.task].seen = nops - 1

\* C15: append_to_workbook is not atomic against another writer of the file.
\* When two invocations on the same file and sheet both load before either
\* saves, the file ends up holding the cells the last saver loaded and the
\* rows of the last saver only, the same as if the other had never saved;
\* when the second loads after the first has saved, the rows of both are in
\* the file.
C15_RacingAppendLosesRows ==
    /\ BothLoadedFirst =>
          LET last == tasks[call.task]
              cells == CellsOfS(fs[Book].xlsx)
          IN  /\ DOMAIN cells = DOMAIN CellsOfS(last.base) \cup OwnCells(last)
              /\ \A rc \in DOMAIN CellsOfS(last.base) \ OwnCells(last) : cells[rc] = CellsOfS(last.base)[rc]
              /\ Present(last, cells)
              /\ fs[Book].xlsx = AppendToWorkbook(Put(pre, Book, [kind |-> "file", xlsx |-> last.base]),
                                                  deps, Book, "S", call.data, NoKwargs).fs[Book].xlsx
    /\ OneAfterTheOther =>
          /\ Present(tasks[prev.call.task], CellsOfS(fs[Book].xlsx))
          /\ Present(tasks[call.task], CellsOfS(fs[Book].xlsx))

\* the lost update: both invocations loaded the same file before either
\* saved, and a row the first saver had put in the file is not there after
\* the second save
C15_Witness ==
    /\ BothLoadedFirst
    /\ tasks[prev.call.task].seen = tasks[call.task].seen
    /\ Present(tasks[prev.call.task], CellsOfS(pre[Book].xlsx))
    /\ \E rc \in OwnCells(tasks[prev.call.task]) : rc \notin DOMAIN CellsOfS(fs[Book].xlsx)

\* ---------------------------------------------------------------------
\* SpecWriters: the four spreadsheet operations, with and without the
\* spreadsheet libraries

\* how many operations one run invokes
MaxWriterOps == 1

\* a second frame
OtherFrame == DataFrame(<<PyStr("p")>>, <<PyInt("0"), PyInt("1")>>, <<<<B>>, <<One>>>>)

\* the frame maps given to create_dataframe_workbook
FrameMaps ==
    {PyDict(<<"E">>, <<SmallFrame>>),
     PyDict(<<"E", "Sales">>, <<SmallFrame, OtherFrame>>),
     PyDict(<<>>, <<>>)}

\* the options given to it
FrameOptions == {NoKwargs, [k \in {"include_index"} |-> FALSE], [k \in {"apply_formatting"} |-> FALSE]}

\* the file systems SpecWriters starts from: nothing, the directory there,
\* a file where the directory should be, and a workbook or a file that is
\* no workbook at the destination
WriterFileSystems ==
    {NoFiles,
     OutDir,
     [q \in {"out"} |-> [kind |-> "file", raw |-> "x"]],
     Put(OutDir, Book, [kind |-> "file", xlsx |-> SeedWorkbook(TRUE)]),
     Put(OutDir, Book, [kind |-> "file", raw |-> "not a zip"])}

InitWriters == \E f \in WriterFileSystems, d \in {AllAvailable, NoneAvailable} : Start(f, d)

\* create_workbook(data, Book, **kwargs)
DoCreateWorkbookOnce ==
    /\ nops < MaxWriterOps
    /\ \E data \in PairMaps, kwargs \in PairOptions :
          Written([op |-> "create_workbook", file_path |-> Book, data |-> data, kwargs |-> kwargs],
                  CreateWorkbook(fs, deps, data, Book, kwargs))

\* create_dataframe_workbook(dataframes, Book, **kwargs)
DoCreateDataframeWorkbook ==
    /\ nops < MaxWriterOps
    /\ \E dataframes \in FrameMaps, kwargs \in FrameOptions :
          Written([op |-> "create_dataframe_workbook", file_path |-> Book,
                   dataframes |-> dataframes, kwargs |-> kwargs],
                  CreateDataframeWorkbook(fs, deps, dataframes, Book, kwargs))

\* append_to_workbook(Book, "S", data)
DoAppendOnce ==
    /\ nops < MaxWriterOps
    /\ \E data \in RacePayloads \cup {SmallFrame, B} :
          Written([op |-> "append_to_workbook", file_path |-> Book, sheet_name |-> "S",
                   data |-> data, kwargs |-> NoKwargs],
                  AppendToWorkbook(fs, deps, Book, "S", data, NoKwargs))

\* create_report_workbook(report_data, Book)
DoCreateReportOnce ==
    /\ nops < MaxWriterOps
    /\ \E report_data \in Reports, now \in Clock :
          Written([op |-> "create_report_workbook", file_path |-> Book, report_data |-> report_data, now |-> now],
                  CreateReportWorkbook(fs, deps, report_data, Book, now))

NextWriters == DoCreateWorkbookOnce \/ DoCreateDataframeWorkbook \/ DoAppendOnce \/ DoCreateReportOnce

SpecWriters == InitWriters /\ [][NextWriters]_vars

\* the four spreadsheet operations
XlsxOperations == {"create_workbook", "create_dataframe_workbook", "append_to_workbook", "create_report_workbook"}

\* what the text of an internal failure of each operation starts with
FailurePrefix(op) ==
    CASE op = "create_workbook" -> "Error creating XLSX workbook: "
      [] op = "create_dataframe_workbook" -> "Error creating DataFrame workbook: "
      [] op = "append_to_workbook" -> "Error appending to workbook: "
      [] op = "create_report_workbook" -> "Error creating report workbook: "

\* C16: with XLSX_AVAILABLE false each of the four spreadsheet operations
\* returns the libraries-missing text and leaves the file system as it was
\* (no directory made, no file written, and no failure of reading what is at
\* the destination); that text is none of the texts an internal failure of
\* the operation gives.
C16_MissingLibrariesTouchNothing ==
    (call.op \in XlsxOperations) =>
        /\ ~deps.XLSX_AVAILABLE =>
              /\ result.value = XlsxMissing
              /\ fs = pre
              /\ ~StartsWith(result.value, FailurePrefix(call.op))
        /\ (deps.XLSX_AVAILABLE /\ result.failed) =>
              /\ StartsWith(result.value, FailurePrefix(call.op))
              /\ result.value # XlsxMissing

\* the case of C16 where the operation would have made the directory
C16_Witness ==
    /\ call.op = "create_dataframe_workbook"
    /\ ~deps.XLSX_AVAILABLE
    /\ Len(call.dataframes.keys) = 2
    /\ ~Exists(fs, "out")
    /\ result.value = XlsxMissing

\* ---------------------------------------------------------------------
\* SpecMarkup: one document written by create_document, from contents made
\* of lines of every kind, or by create_structured_report

\* how many lines a content has at most
MaxMarkupLines == 3

\* the lines: blank, === headings with and without text, dash and hash
\* headings, headings whose text holds a marker character, list items under
\* each marker and one without text, numbered items and the bare "1.", plain
\* text, text with a bold run, and a line that starts with two stars
MarkupLines ==
    {"", "=== T ===", "======", "-- sub", "## sub", "=== a=b ===", "-- a-b", "- item", "~ item", "-",
     "1. one", "1.", " plain ", "p **b**", "**b** p"}

MarkupContents == {Join(ls, "\n") : ls \in SeqsUpTo(MarkupLines, MaxMarkupLines)}

\* no title, an empty one, a title
MarkupTitles == {None, PyStr(""), PyStr("Report")}

\* the sections of a structured report: with and without title, content as
\* a text or a list, subsections with and without title
ReportSectionLists ==
    {<<>>,
     <<[k \in {"title", "content"} |-> IF k = "title" THEN PyStr("Intro") ELSE PyStr("text")]>>,
     <<[k \in {"content", "subsections"} |->
           IF k = "content" THEN PyList(<<A, One>>)
           ELSE <<[j \in {"title", "content"} |-> IF j = "title" THEN PyStr("Sub") ELSE PyStr("more")],
                  [j \in {} |-> None]>>],
       [k \in {"title"} |-> PyStr("")]>>}

\* the structured reports: title absent, empty or given; summary and
\* sections there or not
StructuredReports ==
    {[k \in has |-> CASE k = "title" -> title
                      [] k = "summary" -> PyStr("Sum")
                      [] OTHER -> sections] :
        has \in SUBSET {"title", "summary", "sections"},
        title \in {PyStr(""), PyStr("Report")},
        sections \in ReportSectionLists}

InitMarkup == Start(OutDir, AllAvailable)

\* create_document(content, file_path, title), once
DoCreateMarkupDocument ==
    /\ call = NoCall
    /\ \E content \in MarkupContents, file_path \in {Doc, Nowhere}, title \in MarkupTitles :
          Written([op |-> "create_document", content |-> content, file_path |-> file_path,
                   title |-> title, style_config |-> None],
                  CreateDocument(fs, content, file_path, title, None))

\* create_structured_report(data, file_path), once
DoCreateStructuredReport ==
    /\ call = NoCall
    /\ \E data \in StructuredReports, file_path \in {Doc, Nowhere} :
          Written([op |-> "create_structured_report", data |-> data, file_path |-> file_path],
                  CreateStructuredReport(fs, data, file_path))

NextMarkup == DoCreateMarkupDocument \/ DoCreateStructuredReport

SpecMarkup == InitMarkup /\ [][NextMarkup]_vars

\* the title given to the last call, None when there was none
GivenTitle ==
    IF call.op = "create_document" THEN call.title
    ELSE Get(call.data, "title", None)

\* C17: in a document built by create_document or create_structured_report
\* a level-1 heading occurs at most once, as the first block only, holding
\* the title, and not at all when the title is absent or empty; every other
\* heading has level 2 or 3.
C17_LevelOneIsTheTitle ==
    (call.op \in {"create_document", "create_structured_report"} /\ ~result.failed) =>
        LET blocks == fs[call.file_path].docx.paragraphs
        IN  \A i \in 1..Len(blocks) :
               /\ blocks[i].style = "Heading 1" =>
                     /\ i = 1
                     /\ Truthy(GivenTitle)
                     /\ ParagraphText(blocks[i]) = GivenTitle.v
               /\ (StartsWith(blocks[i].style, "Heading") /\ i > 1) =>
                     blocks[i].style \in {"Heading 2", "Heading 3"}

\* the lines of the last call's content, trimmed
TrimmedLines == LET ls == Split(call.content, "\n") IN [i \in 1..Len(ls) |-> Strip(ls[i])]

\* the blocks of the document after the title's
BodyBlocks ==
    LET blocks == fs[call.file_path].docx.paragraphs
    IN  SubSeq(blocks, (IF Truthy(call.title) THEN 2 ELSE 1), Len(blocks))

\* rule 5 as stated: the first character is a digit and the second a dot
OrderedAsStated(line) == Len(line) >= 2 /\ IsDigit(CharAt(line, 1)) /\ CharAt(line, 2) = "."

\* rule 5 as the code has it: so, and something follows the dot
OrderedWithRest(line) == OrderedAsStated(line) /\ Len(line) > 2

\* the rule a trimmed line falls under, the rules tried in their order
RuleOf(line, Ordered(_)) ==
    IF line = "" THEN "blank"
    ELSE IF Len(line) >= 3 /\ SubSeq(line, 1, 3) = "===" /\ SubSeq(line, Len(line) - 2, Len(line)) = "==="
    THEN "heading 2"
    ELSE IF Len(line) >= 2 /\ SubSeq(line, 1, 2) \in {"--", "##"} THEN "heading 3"
    ELSE IF CharAt(line, 1) \in {BulletChar, "-", "*"} THEN "unordered"
    ELSE IF Ordered(line) THEN "ordered"
    ELSE "paragraph"

\* the text of the block a heading or list line gives
BlockText(rule, line) ==
    CASE rule = "heading 2" -> Strip(Remove(line, "="))
      [] rule = "heading 3" -> Strip(Remove(Remove(line, "-"), "#"))
      [] rule = "unordered" -> Strip(SubSeq(line, 2, Len(line)))
      [] rule = "ordered" -> Strip(SubSeq(line, 3, Len(line)))
      [] OTHER -> ""

\* the style of the block a line under the rule gives
BlockStyle(rule) ==
    CASE rule = "heading 2" -> "Heading 2"
      [] rule = "heading 3" -> "Heading 3"
      [] rule = "unordered" -> "List Bullet"
      [] rule = "ordered" -> "List Number"
      [] OTHER -> "Normal"

\* line i gives a block of its own: a heading or list line with a text, or a
\* paragraph line that does not follow a paragraph line
GivesBlock(lines, i, Ordered(_)) ==
    LET rule == RuleOf(lines[i], Ordered)
    IN  IF rule = "blank" THEN FALSE
        ELSE IF rule = "paragraph" THEN i = 1 \/ RuleOf(lines[i - 1], Ordered) # "paragraph"
        ELSE BlockText(rule, lines[i]) # ""

\* the lines that give a block, in their order
BlockLines(lines, Ordered(_)) ==
    LET Gives(i) == GivesBlock(lines, i, Ordered)
    IN  SelectSeq([i \in 1..Len(lines) |-> i], Gives)

\* the blocks of the written document are those of the lines that give one,
\* in the order of the lines, each of the style of its line's rule, heading
\* and list blocks holding their line's text
BlocksFollowRules(Ordered(_)) ==
    (call.op = "create_document" /\ ~result.failed) =>
        LET lines == TrimmedLines
            from == BlockLines(lines, Ordered)
        IN  /\ Len(BodyBlocks) = Len(from)
            /\ \A k \in 1..Len(from) :
                  LET rule == RuleOf(lines[from[k]], Ordered)
                  IN  /\ BodyBlocks[k].style = BlockStyle(rule)
                      /\ rule # "paragraph" => ParagraphText(BodyBlocks[k]) = BlockText(rule, lines[from[k]])

\* C19: the markup parser puts every trimmed line under the first rule that
\* matches, in the order blank, === heading (level 2), -- or ## heading
\* (level 3), unordered item, ordered item (first character a digit, second a
\* dot, and something after the dot), paragraph text; the blocks follow the
\* order of their lines.
C19_FirstRuleWins == BlocksFollowRules(OrderedWithRest)

\* C19 as first stated: the ordered-item rule takes every line whose first
\* character is a digit and whose second is a dot.
C19_DigitDotIsOrdered == BlocksFollowRules(OrderedAsStated)

\* the case of C19 where a line of dashes, a numbered line and a line of two
\* stars each match a later rule as well
C19_Witness ==
    /\ call.op = "create_document" /\ ~result.failed
    /\ call.content = "-- sub\n1. one\n**b** p"
    /\ Len(BodyBlocks) = 3
    /\ BodyBlocks[1].style = "Heading 3"
    /\ BodyBlocks[2].style = "List Number"
    /\ BodyBlocks[3].style = "List Bullet"

\* what a paragraph line adds to its paragraph: the pieces between the
\* double stars, or the line and a space
LineText(line) == IF Contains(line, "**") THEN Join(Split(line, "**"), "") ELSE line \o " "

RECURSIVE RunText(_, _)
\* the text of the paragraph lines from line i up to the first line that is
\* not a paragraph line
RunText(lines, i) ==
    IF i > Len(lines) \/ RuleOf(lines[i], OrderedWithRest) # "paragraph" THEN ""
    ELSE LineText(lines[i]) \o RunText(lines, i + 1)

\* C20: two paragraph lines are written into the same paragraph exactly when
\* no blank, heading or list line lies between them: every paragraph of the
\* document holds the text of one unbroken run of paragraph lines, from a
\* paragraph line that follows no paragraph line up to the next line of
\* another kind, be that a heading or list line without text that gives no
\* block.
C20_ParagraphsAreUnbrokenRuns ==
    (call.op = "create_document" /\ ~result.failed) =>
        LET lines == TrimmedLines
            from == BlockLines(lines, OrderedWithRest)
        IN  /\ Len(BodyBlocks) = Len(from)
            /\ \A k \in 1..Len(from) :
                  RuleOf(lines[from[k]], OrderedWithRest) = "paragraph" =>
                      ParagraphText(BodyBlocks[k]) = RunText(lines, from[k])

\* the case of C20 where a list line without text, which gives no block,
\* lies between two paragraph lines
C20_Witness ==
    /\ call.op = "create_document" /\ ~result.failed
    /\ call.content = " plain \n-\n plain "
    /\ Len(BodyBlocks) = 2
    /\ ParagraphText(BodyBlocks[1]) = "plain "
    /\ ParagraphText(BodyBlocks[2]) = "plain "

RECURSIVE SpacedRunText(_, _)
\* the text of the paragraph lines from line i up to the first line that is
\* not a paragraph line, were every line followed by one space: the line
\* itself, its double stars taken out, and the space
SpacedRunText(lines, i) ==
    IF i > Len(lines) \/ RuleOf(lines[i], OrderedWithRest) # "paragraph" THEN ""
    ELSE Join(Split(lines[i], "**"), "") \o " " \o SpacedRunText(lines, i + 1)

\* C21: every line appended to a paragraph contributes its text followed by
\* exactly one space, be there double stars in the line or not: the text of
\* a paragraph is the texts of its lines, each followed by a space.
C21_EveryLineEndsWithASpace ==
    (call.op = "create_document" /\ ~result.failed) =>
        LET lines == TrimmedLines
            from == BlockLines(lines, OrderedWithRest)
        IN  \A k \in 1..Len(from) :
               (k <= Len(BodyBlocks) /\ RuleOf(lines[from[k]], OrderedWithRest) = "paragraph") =>
                   ParagraphText(BodyBlocks[k]) = SpacedRunText(lines, from[k])

\* ---------------------------------------------------------------------
\* SpecBold: one document written by create_document from a single line
\* made of pieces between double stars, with and without a style
\* configuration

\* how many pieces a line has at most
MaxSegments == 4

\* the pieces: nothing, a word, a word between spaces, a word that ends in
\* a star
Segments == {"", "a", " b ", "c*"}

\* the lines: at least two pieces, joined by double stars
BoldLines == {Join(segs, "**") : segs \in UNION {SeqsOfLen(Segments, n) : n \in 2..MaxSegments}}

\* a style configuration other than the default one
ArialConfig == [k \in {"font_name", "font_size"} |-> IF k = "font_name" THEN "Arial" ELSE 14]

InitBold == Start(OutDir, AllAvailable)

\* create_document(content, Doc, title, style_config), once
DoCreateBoldDocument ==
    /\ call = NoCall
    /\ \E content \in BoldLines, title \in {None, PyStr("Report")}, style_config \in {None, ArialConfig} :
          Written([op |-> "create_document", content |-> content, file_path |-> Doc,
                   title |-> title, style_config |-> style_config],
                  CreateDocument(fs, content, Doc, title, style_config))

NextBold == DoCreateBoldDocument

SpecBold == InitBold /\ [][NextBold]_vars

RECURSIVE WithoutStars(_)
\* the text with every pair of stars taken out, read from the left
WithoutStars(text) ==
    IF text = "" THEN ""
    ELSE IF Len(text) >= 2 /\ SubSeq(text, 1, 2) = "**" THEN WithoutStars(SubSeq(text, 3, Len(text)))
    ELSE CharAt(text, 1) \o WithoutStars(SubSeq(text, 2, Len(text)))

\* the last call wrote a document from one paragraph line that holds double stars
WroteBoldLine ==
    /\ call.op = "create_document" /\ ~result.failed
    /\ Len(TrimmedLines) = 1
    /\ RuleOf(TrimmedLines[1], OrderedWithRest) = "paragraph"
    /\ Contains(TrimmedLines[1], "**")

\* C22: a paragraph line that holds double stars is split on them and its
\* pieces are written in order, each as a run of its own, the first, third,
\* ... plain and the second, fourth, ... bold, a last piece without closing
\* stars included; an empty piece gives no run; the run texts together are
\* the line with every pair of stars taken out.
C22_PiecesAlternatePlainAndBold ==
    WroteBoldLine =>
        LET parts == Split(TrimmedLines[1], "**")
            Kept(i) == parts[i] # ""
            kept == SelectSeq([i \in 1..Len(parts) |-> i], Kept)
            runs == BodyBlocks[1].runs
        IN  /\ Len(BodyBlocks) = 1
            /\ Len(runs) = Len(kept)
            /\ \A k \in 1..Len(kept) :
                  /\ runs[k].text = parts[kept[k]]
                  /\ runs[k].bold = (kept[k] % 2 = 0)
            /\ RunsText(runs) = WithoutStars(TrimmedLines[1])

\* the case of C22 with an empty piece and a last bold piece that is not closed
C22_Witness ==
    /\ WroteBoldLine
    /\ call.content = "a**** b **c*"
    /\ Len(BodyBlocks[1].runs) = 3
    /\ ~BodyBlocks[1].runs[2].bold
    /\ BodyBlocks[1].runs[3].bold

RECURSIVE LStripOf(_, _)
\* the text without the characters of the set it starts with
LStripOf(text, chars) ==
    IF text # "" /\ CharAt(text, 1) \in chars THEN LStripOf(SubSeq(text, 2, Len(text)), chars) ELSE text

RECURSIVE RStripOf(_, _)
\* the text without the characters of the set it ends with
RStripOf(text, chars) ==
    IF text # "" /\ CharAt(text, Len(text)) \in chars THEN RStripOf(SubSeq(text, 1, Len(text) - 1), chars) ELSE text

\* a heading line with its markers stripped: the = signs and spaces around
\* the text of a level-2 line, the dashes and hashes in front of the text of
\* a level-3 line, what lies between kept as it is
HeadingTextKeptWhole(rule, line) ==
    IF rule = "heading 2" THEN RStripOf(LStripOf(line, {"=", " "}), {"=", " "})
    ELSE Strip(LStripOf(line, {"-", "#"}))

\* C23: the text of a level-2 or level-3 heading is its line without the
\* marker characters that wrap or lead it and without the spaces around it,
\* every other character kept in order, marker characters inside the text
\* too; the heading is written only when that text is not empty.
C23_HeadingTextKeepsInnerMarkers ==
    (/\ call.op = "create_document" /\ ~result.failed
     /\ Len(TrimmedLines) = 1
     /\ RuleOf(TrimmedLines[1], OrderedWithRest) \in {"heading 2", "heading 3"}) =>
        LET rule == RuleOf(TrimmedLines[1], OrderedWithRest)
            text == HeadingTextKeptWhole(rule, TrimmedLines[1])
        IN  IF text = "" THEN Len(BodyBlocks) = 0
            ELSE /\ Len(BodyBlocks) = 1
                 /\ BodyBlocks[1].style = BlockStyle(rule)
                 /\ ParagraphText(BodyBlocks[1]) = text

(***************************************************************************)
(* SpecReaders: extract_from_file on one container.  The directory "in"    *)
(* holds one file, a presentation, a document or a workbook, drawn from    *)
(* pools that have slides without a text, tables between paragraphs,       *)
(* blank cells, empty sheets and sheets that cannot be read.               *)
(***************************************************************************)

\* how many slides a deck has at most
MaxSlides == 3

InDir == [q \in {"in"} |-> [kind |-> "dir"]]

DeckPath == "in/deck.pptx"

\* slides: without a shape, with a picture only, with a blank text, with one
\* text, with two, with a blank text before a text that has spaces around it
SlidePool ==
    {<<>>,
     <<[has_text |-> FALSE, text |-> ""]>>,
     <<[has_text |-> TRUE, text |-> " "]>>,
     <<[has_text |-> TRUE, text |-> "A"]>>,
     <<[has_text |-> TRUE, text |-> "A"], [has_text |-> FALSE, text |-> ""], [has_text |-> TRUE, text |-> "B"]>>,
     <<[has_text |-> TRUE, text |-> ""], [has_text |-> TRUE, text |-> " C "]>>}

Decks == SeqsUpTo(SlidePool, MaxSlides)

DeckFileSystems == {Put(InDir, DeckPath, [kind |-> "file", pptx |-> deck]) : deck \in Decks}

\* how many paragraphs and tables the body of a document has at most
MaxBodyElements == 3

TextPath == "in/text.docx"

\* what the body of a document holds: paragraphs (empty, blank, with a text,
\* with spaces around the text) and tables (two cells in a row, blank cells
\* only, blank cells among others and a row of them between two rows)
BodyElements ==
    {[kind |-> "p", text |-> t, rows |-> <<>>] : t \in {"", " ", "P", " Q "}}
    \cup {[kind |-> "tbl", text |-> "", rows |-> r] :
             r \in {<<<<"a", "b">>>>, <<<<" ", "">>>>, <<<<" c ", "", "d">>, <<"", "">>, <<"e">>>>}}

Bodies == SeqsUpTo(BodyElements, MaxBodyElements)

BodyParagraphs(body) == SelectSeq(body, LAMBDA x : x.kind = "p")

BodyTables(body) == SelectSeq(body, LAMBDA x : x.kind = "tbl")

\* Document(path) of a file with that body: doc.paragraphs are the body's
\* paragraphs and doc.tables its tables, each in body order
DocumentOf(body) ==
    [BuildDocument("", None, None) EXCEPT
        !.paragraphs = [i \in 1..Len(BodyParagraphs(body)) |->
                           AddParagraph(BodyParagraphs(body)[i].text, "Normal")],
        !.tables = [i \in 1..Len(BodyTables(body)) |-> BodyTables(body)[i].rows]]

TextFileSystems ==
    {Put(InDir, TextPath, [kind |-> "file", docx |-> DocumentOf(body), body |-> body]) :
        body \in Bodies}

\* how many sheets a workbook has at most
MaxSheets == 3

BookPath == "in/book.xlsx"

\* a sheet with a header and a row, one with a header only, one without a
\* cell, and one pd.read_excel raises on
SheetKinds == {"data", "header", "empty", "raises"}

SheetOfKind(kind) ==
    CASE kind = "data" -> SheetOf(<<<<PyStr("h")>>, <<PyInt("1")>>>>)
      [] kind = "header" -> SheetOf(<<<<PyStr("h")>>>>)
      [] OTHER -> NewSheet

\* the name of the k-th sheet
SheetName(k) == "S" \o IntStr(k)

\* the workbook whose k-th sheet is of the kind kinds[k]
BookOf(kinds) ==
    [sheetnames |-> [k \in 1..Len(kinds) |-> SheetName(k)],
     sheets |-> [n \in {SheetName(k) : k \in 1..Len(kinds)} |->
                    SheetOfKind(kinds[CHOOSE k \in 1..Len(kinds) : SheetName(k) = n])],
     unreadable |-> {SheetName(k) : k \in {j \in 1..Len(kinds) : kinds[j] = "raises"}}]

BookFileSystems ==
    {Put(InDir, BookPath, [kind |-> "file", xlsx |-> BookOf(kinds), sheet_kinds |-> kinds]) :
        kinds \in SeqsUpTo(SheetKinds, MaxSheets)}

ReaderPaths == {DeckPath, TextPath, BookPath}

InitReaders ==
    \E f \in DeckFileSystems \cup TextFileSystems \cup BookFileSystems : Start(f, AllAvailable)

\* extract_from_file(file_path), once
DoReadContainer ==
    /\ call = NoCall
    /\ \E file_path \in ReaderPaths :
           Answered([op |-> "extract_from_file", file_path |-> file_path],
                    ExtractFromFile(fs, deps, file_path))

NextReaders == DoReadContainer

SpecReaders == InitReaders /\ [][NextReaders]_vars

\* the lines of a text that are not empty
NonEmptyLines(text) == SelectSeq(Split(text, "\n"), LAMBDA l : l # "")

RECURSIVE Flatten(_)
\* the lists of a list put together
Flatten(lists) == IF Len(lists) = 0 THEN <<>> ELSE lists[1] \o Flatten(Tail(lists))

\* whether the reader of the container at path answered
Read(path) ==
    /\ call.op = "extract_from_file"
    /\ call.file_path = path
    /\ path \in DOMAIN fs
    /\ ~result.failed

\* the texts of a slide's shapes that are not blank
SlideTexts(slide) ==
    LET shown == SelectSeq(slide, LAMBDA shape : shape.has_text /\ Strip(shape.text) # "")
    IN  [k \in 1..Len(shown) |-> shown[k].text]

\* a slide's marker and texts, or nothing for a slide without a text
SlideUnit(deck, n) ==
    IF SlideTexts(deck[n]) = <<>> THEN <<>>
    ELSE <<"--- Slide " \o IntStr(n) \o " ---">> \o SlideTexts(deck[n])

\* C24: the presentation reader gives, slide by slide in deck order, the
\* marker `--- Slide N ---` with N the slide's position in the deck followed
\* by the slide's non-blank shape texts, for the slides that have such a text
\* and for no other slide, and the sentinel `No text content found` for a
\* deck none of whose slides has a text.
C24_SlidesWithTextKeepTheirNumber ==
    Read(DeckPath) =>
        LET deck == fs[DeckPath].pptx
            units == Flatten([n \in 1..Len(deck) |-> SlideUnit(deck, n)])
        IN  IF units = <<>> THEN StartsWith(result.value, "No text content found")
            ELSE NonEmptyLines(result.value) = units

\* a deck whose second slide is the first one with a text has been read
C24_Witness ==
    /\ Read(DeckPath)
    /\ Len(fs[DeckPath].pptx) = 3
    /\ SlideTexts(fs[DeckPath].pptx[1]) = <<>>
    /\ SlideTexts(fs[DeckPath].pptx[2]) # <<>>
    /\ SlideTexts(fs[DeckPath].pptx[3]) = <<>>
    /\ StartsWith(result.value, "--- Slide 2 ---")

\* the trimmed texts of a row's cells that are not empty
TrimmedCells(row) == SelectSeq([c \in 1..Len(row) |-> Strip(row[c])], LAMBDA t : t # "")

\* the lines of a table: one for each row that has a non-empty cell
TableRowLines(rows) ==
    LET shown == SelectSeq(rows, LAMBDA row : TrimmedCells(row) # <<>>)
    IN  [r \in 1..Len(shown) |-> Join(TrimmedCells(shown[r]), " | ")]

\* the texts of the body's paragraphs that are not blank
ParagraphLines(body) ==
    LET shown == SelectSeq(BodyParagraphs(body), LAMBDA x : Strip(x.text) # "")
    IN  [k \in 1..Len(shown) |-> shown[k].text]

\* C25: the word-processor reader gives the texts of the non-blank
\* paragraphs in document order and after them, table by table and row by
\* row, the row's non-empty trimmed cell texts joined by " | ", without a
\* line for a row that has no such cell; the table lines follow all the
\* paragraph lines wherever the tables stand in the body; the sentinel
\* `No text content found` is returned exactly when there is no such line.
C25_ParagraphsThenTableRows ==
    Read(TextPath) =>
        LET body == fs[TextPath].body
            lines == ParagraphLines(body)
                     \o Flatten([t \in 1..Len(BodyTables(body)) |-> TableRowLines(BodyTables(body)[t].rows)])
        IN  IF lines = <<>> THEN StartsWith(result.value, "No text content found")
            ELSE /\ Split(result.value, "\n") = lines
                 /\ ~StartsWith(result.value, "No text content found")

\* a document whose body has a table with blank cells between two paragraphs
\* has been read
C25_Witness ==
    /\ Read(TextPath)
    /\ Len(fs[TextPath].body) = 3
    /\ fs[TextPath].body[1].text = "P"
    /\ fs[TextPath].body[2].kind = "tbl"
    /\ Len(fs[TextPath].body[2].rows) = 3
    /\ fs[TextPath].body[3].text = " Q "
    /\ result.value = "P\n Q \nc | d\ne"

\* where in the text the pieces equal to sub start
Occurrences(text, sub) ==
    {i \in 1..(Len(text) - Len(sub) + 1) : SubSeq(text, i, i + Len(sub) - 1) = sub}

\* the first lines of the k-th sheet's section, by the kind of the sheet
SectionStart(kinds, k) ==
    CASE kinds[k] = "raises" -> "Error reading sheet '" \o SheetName(k) \o "': "
      [] kinds[k] = "empty" ->
            "=== Sheet: " \o SheetName(k) \o " ===\nDimensions: 0 rows x 0 columns\nSheet is empty\n"
      [] kinds[k] = "header" ->
            "=== Sheet: " \o SheetName(k) \o " ===\nDimensions: 0 rows x 1 columns\nSheet is empty\n"
      [] OTHER ->
            "=== Sheet: " \o SheetName(k) \o " ===\nDimensions: 1 rows x 1 columns\n\nColumns:\nh\n"

\* C26: every sheet of a workbook gives one section of the spreadsheet
\* reader's output, in workbook order: its data section, its `Dimensions:`
\* line with `Sheet is empty`, or the line `Error reading sheet '<name>':
\* <message>` for a sheet that raises; the sheets after a raising one are
\* read all the same and the result is not an error.
C26_EverySheetGivesOneSection ==
    (Read(BookPath) /\ Len(fs[BookPath].sheet_kinds) > 0) =>
        LET kinds == fs[BookPath].sheet_kinds
            at(k) == Occurrences(result.value, SectionStart(kinds, k))
            marker(k) == Occurrences(result.value, "=== Sheet: " \o SheetName(k) \o " ===")
            error(k) == Occurrences(result.value, "Error reading sheet '" \o SheetName(k) \o "'")
        IN  /\ ~StartsWith(result.value, "Error")
            /\ StartsWith(result.value, "Excel Workbook: book.xlsx\nNumber of sheets: "
                                        \o IntStr(Len(kinds)) \o "\n")
            /\ \A k \in 1..Len(kinds) :
                   /\ Cardinality(at(k)) = 1
                   /\ Cardinality(marker(k)) + Cardinality(error(k)) = 1
            /\ \A k \in 1..(Len(kinds) - 1) : \A i \in at(k), j \in at(k + 1) : i < j

\* a workbook whose first sheet raises, whose second is empty and whose third
\* has data has been read
C26_Witness ==
    /\ Read(BookPath)
    /\ fs[BookPath].sheet_kinds = <<"raises", "empty", "data">>
    /\ Contains(result.value, "Error reading sheet 'S1': ")
    /\ Contains(result.value, "=== Sheet: S3 ===\nDimensions: 1 rows x 1 columns")

\* C27: the spreadsheet reader returns the sentinel `No readable content
\* found` whenever no sheet of the workbook gave data, in particular when
\* every sheet raised while it was read.
C27_NoDataGivesTheSentinel ==
    (Read(BookPath) /\ \A k \in 1..Len(fs[BookPath].sheet_kinds) : fs[BookPath].sheet_kinds[k] = "raises") =>
        StartsWith(result.value, "No readable content found")

\* the data sections of the report last written
SectionsGiven == Get(call.report_data, "data", PyDict(<<>>, <<>>))

\* what create_workbook does with the same sections on the same file system
AsCreateWorkbook == CreateWorkbook(pre, deps, SectionsGiven, call.file_path, NoKwargs)

\* C28: create_report_workbook treats each section payload as create_workbook
\* treats a sheet payload: for a map of scalars, a list of rows, a bare frame
\* and a bare scalar, it succeeds whenever create_workbook succeeds on the
\* same payloads, and the section's sheet holds the cell values that
\* create_workbook writes.
C28_SectionsWrittenAsSheets ==
    (/\ call.op = "create_report_workbook"
     /\ \A k \in 1..Len(SectionsGiven.vals) :
            ~(IsDict(SectionsGiven.vals[k]) /\ HasDataframe(SectionsGiven.vals[k]))
     /\ ~AsCreateWorkbook.ret.failed) =>
        /\ ~result.failed
        /\ LET report == fs[call.file_path].xlsx
               plain == AsCreateWorkbook.fs[call.file_path].xlsx
           IN  \A k \in 1..Len(SectionsGiven.keys) :
                   report.sheets[report.sheetnames[k + 1]].cells = plain.sheets[plain.sheetnames[k]].cells

(***************************************************************************)
(* SpecBatch: one run of extract_from_directory taken step by step, while  *)
(* other processes add files to the directory and remove files from it.    *)
(* The run lists the directory in one step and then takes one step per     *)
(* listed file; the last of these steps returns.  The run record keeps     *)
(* what the run holds (files, results and the position in the loop) and,   *)
(* as history, the file system the listing saw, the paths                  *)
(* extract_from_file was called with and whether each was there then.      *)
(***************************************************************************)

\* how many times other processes change the directory during a run
MaxChanges == 2

BatchDir == "in"

\* what other processes put into the directory
BatchEntries ==
    {<<"in/a.docx", GoodDocx>>, <<"in/a.docx", Corrupt>>, <<"in/b.pptx", GoodPptx>>, <<"in/c.xlsx", GoodXlsx>>}

\* the file systems a run starts from: the directory with none to three files
BatchFileSystems ==
    {[q \in {BatchDir} \cup {x[1] : x \in S} |->
         IF q = BatchDir THEN Dir ELSE (CHOOSE x \in S : x[1] = q)[2]] :
        S \in {T \in SUBSET BatchEntries : \A x \in T, y \in T : x[1] = y[1] => x = y}}

InitBatch ==
    /\ fs \in BatchFileSystems
    /\ deps = AllAvailable
    /\ call = NoCall
    /\ result = NoResult
    /\ pre = fs
    /\ prev = NoPrev
    /\ nops = 0
    /\ tasks = <<[pc |-> "idle", files |-> <<>>, k |-> 1, results |-> <<>>, readers |-> <<>>,
                 listed_from |-> fs, called |-> <<>>, there |-> <<>>, changes |-> 0]>>

\* the run returns ret
BatchReturns(ret) ==
    /\ call' = [op |-> "extract_from_directory", directory_path |-> BatchDir, recursive |-> FALSE]
    /\ result' = ret
    /\ pre' = tasks[1].listed_from
    /\ prev' = [call |-> call, result |-> result, pre |-> pre]
    /\ nops' = nops + 1

\* the run from its start to the end of _find_supported_files: it returns at
\* once when there is no supported file
ListDirectory ==
    /\ tasks[1].pc = "idle"
    /\ LET files == FindSupportedFiles(fs, BatchDir, FALSE)
       IN  IF files = <<>>
           THEN /\ tasks' = [tasks EXCEPT ![1].pc = "done", ![1].listed_from = fs]
                /\ BatchReturns(Ok("No supported files found in " \o BatchDir, <<>>))
           ELSE /\ tasks' = [tasks EXCEPT ![1].pc = "listed", ![1].files = files, ![1].listed_from = fs]
                /\ UNCHANGED <<call, result, pre, prev, nops>>
    /\ UNCHANGED <<fs, deps>>

\* the files the loop walks, looked up again in the directory at every turn
FilesOfLoopListedAgain(run, f) == FindSupportedFiles(f, BatchDir, FALSE)

\* the files the loop of extract_from_directory walks: the list made before
\* the loop
FilesOfLoop(run, f) == run.files

\* one turn of the loop: extract_from_file on the next file of the list, its
\* block added to results; after the last file the run returns the results
ExtractNextFile ==
    /\ tasks[1].pc = "listed"
    /\ tasks[1].k <= Len(FilesOfLoop(tasks[1], fs))
    /\ LET run == tasks[1]
           file_path == FilesOfLoop(run, fs)[run.k]
           results == run.results \o FileBlocks(fs, deps, <<file_path>>, 1)
           readers == run.readers \o ReadersOf(fs, deps, <<file_path>>, 1)
           last == run.k = Len(FilesOfLoop(run, fs))
       IN  /\ tasks' = [tasks EXCEPT ![1].k = run.k + 1,
                                     ![1].results = results,
                                     ![1].readers = readers,
                                     ![1].called = Append(run.called, file_path),
                                     ![1].there = Append(run.there, Exists(fs, file_path)),
                                     ![1].pc = IF last THEN "done" ELSE "listed"]
           /\ IF last THEN BatchReturns(Ok(Join(results, "\n"), readers))
              ELSE UNCHANGED <<call, result, pre, prev, nops>>
    /\ UNCHANGED <<fs, deps>>

\* another process writes a file into the directory
FileAdded ==
    /\ tasks[1].pc # "done"
    /\ tasks[1].changes < MaxChanges
    /\ \E x \in BatchEntries :
          /\ x[1] \notin DOMAIN fs
          /\ fs' = Put(fs, x[1], x[2])
    /\ tasks' = [tasks EXCEPT ![1].changes = @ + 1]
    /\ UNCHANGED <<deps, call, result, pre, prev, nops>>

\* another process removes a file from the directory
FileRemoved ==
    /\ tasks[1].pc # "done"
    /\ tasks[1].changes < MaxChanges
    /\ \E q \in DOMAIN fs \ {BatchDir} : fs' = [p \in DOMAIN fs \ {q} |-> fs[p]]
    /\ tasks' = [tasks EXCEPT ![1].changes = @ + 1]
    /\ UNCHANGED <<deps, call, result, pre, prev, nops>>

NextBatch == ListDirectory \/ ExtractNextFile \/ FileAdded \/ FileRemoved

SpecBatch == InitBatch /\ [][NextBatch]_vars

\* the guard of the run's next step: ENABLED (ListDirectory \/ ExtractNextFile)
RunCanStep ==
    \/ tasks[1].pc = "idle"
    \/ tasks[1].pc = "listed" /\ tasks[1].k <= Len(FilesOfLoop(tasks[1], fs))

\* a step of the run, which alone moves its position
RunSteps == tasks'[1].pc # tasks[1].pc \/ tasks'[1].k # tasks[1].k

\* The run is never held up: its coroutines wait for nothing but the reads
\* themselves, so a step that stays possible is taken.  This is weak
\* fairness of the run's steps, WF_vars(ListDirectory \/ ExtractNextFile),
\* written out with the steps' guard in the place of ENABLED.
SpecBatchFair == SpecBatch /\ ([]<>(~RunCanStep) \/ []<><<RunSteps>>_vars)

\* the block of results for the k-th listed file is the not-found error
NotFoundBlock(run, k) ==
    run.results[7 * (k - 1) + 5] = "Error: File not found - " \o run.files[k]

\* what holds of a run at every moment: the list is the directory's supported
\* files as they were when it was made; the calls of extract_from_file so far
\* are the first files of the list, one call each, in list order; each call
\* has added one block; a listed file that was gone at its turn has the
\* not-found error as its block; a run that has returned has called every
\* listed file and returns the blocks
ListedOnceInOrder ==
    LET run == tasks[1]
    IN  /\ run.pc # "idle" => run.files = FindSupportedFiles(run.listed_from, BatchDir, FALSE)
        /\ Len(run.called) <= Len(run.files)
        /\ run.called = SubSeq(run.files, 1, Len(run.called))
        /\ Len(run.results) = 7 * Len(run.called)
        /\ \A k \in 1..Len(run.called) : ~run.there[k] => NotFoundBlock(run, k)
        /\ run.pc = "done" =>
              /\ run.called = run.files
              /\ call.op = "extract_from_directory"
              /\ ~result.failed
              /\ run.files # <<>> => result.value = Join(run.results, "\n")

\* C29: extract_from_directory makes the whole list of files before it
\* extracts anything, then calls extract_from_file once for each listed file,
\* in list order, without a second attempt after an error text, and ends
\* after the last file; a file added after the listing is not processed, and
\* a listed file that is gone at its turn gives a not-found error block in
\* the results while the run goes on.
C29_ListedFilesOnceThenDone == [](ListedOnceInOrder) /\ <>(tasks[1].pc = "done")

\* a run has returned after a listed file was removed before its turn and
\* another file was added after the listing: the first has its error block,
\* the second was never called
C29_Witness ==
    LET run == tasks[1]
    IN  /\ run.pc = "done"
        /\ Len(run.files) = 2
        /\ run.there = <<TRUE, FALSE>>
        /\ NotFoundBlock(run, 2)
        /\ \E q \in DOMAIN fs : IsFile(fs, q) /\ q \notin DOMAIN run.listed_from
                                /\ \A k \in 1..Len(run.called) : run.called[k] # q

\* the style configuration create_document works with
ConfigGiven == IF call.style_config = None THEN DefaultStyleConfig ELSE call.style_config

\* the font a run is shown in: its own, or the one of the document's default
\* style (Calibri, 11pt) when it has none of its own
ShownFont(run) ==
    [name |-> IF run.font_name = "" THEN "Calibri" ELSE run.font_name,
     size |-> IF run.font_size = 0 THEN 11 ELSE run.font_size]

\* C30: in a document written by create_document every run of every body
\* paragraph and of every list item has the configured font name and font
\* size (Calibri and 11pt when none is configured), whether the run was added
\* before the paragraph was styled or after.
C30_EveryRunHasTheConfiguredFont ==
    (call.op = "create_document" /\ ~result.failed) =>
        \A k \in 1..Len(BodyBlocks) :
            BodyBlocks[k].style \in {"Normal", "List Bullet", "List Number"} =>
                \A r \in 1..Len(BodyBlocks[k].runs) :
                    ShownFont(BodyBlocks[k].runs[r]) =
                        [name |-> Get(ConfigGiven, "font_name", "Calibri"),
                         size |-> Get(ConfigGiven, "font_size", 11)]

=============================================================================
